---------------------------- MODULE Spec2Model ----------------------------
(***************************************************************************)
(* Reverba: daily task generation and the word-priority state machine.     *)
(*                                                                         *)
(* The repository's sources under src/ are the frontend and the API        *)
(* documentation (src/unnamed/part_000, the README in                      *)
(* src/frontend/src/main.tsx).  The numbers and rules those files state    *)
(* (tier sizes, priority after PASS / FAIL, the rebalancer's increment,    *)
(* the mastery threshold, the TaskItem shape, the 400 on a second          *)
(* completion) are taken from them.  The backend handlers themselves       *)
(* (selector, rebalancer, batch builder, completion handler) are modelled  *)
(* from spec.md sections 4 to 7.  The frontend components (the task        *)
(* dialog, the Today's Tasks page, the Add Words page) are translated from *)
(* their sources under src/frontend/src.                                   *)
(***************************************************************************)
EXTENDS Integers, Sequences, FiniteSets, TLC

VARIABLES
    words,      \* Word Store: word id -> Word document of the one user modelled
    date,       \* the current calendar date (a day number)
    batches,    \* Batch Store: the DailyTaskBatch documents of the current date
    lastCall,   \* the last handler invoked, its arguments and its response
    gen,        \* generation runs in flight: runner -> local state
    req,        \* completion requests in flight: request -> local state
    page,       \* frontend: the Today's Tasks page (TodaysTasks)
    dialog,     \* frontend: the task dialog the page shows (TaskDialog)
    addWords,   \* frontend: the Add Words page (AddWords)
    auth,       \* frontend: the auth slice of the Redux store
    calls,      \* frontend: HTTP requests in flight, with their interceptor state
    location,   \* frontend: the browser's location and what the router shows
    forgot      \* frontend: the forgot-password page (ForgotPassword)

backend == <<words, date, batches, lastCall, gen, req>>

session == <<auth, calls, location, forgot>>

frontend == <<page, dialog, addWords, auth, calls, location, forgot>>

vars ==
    <<words, date, batches, lastCall, gen, req, page, dialog, addWords,
      auth, calls, location, forgot>>

-----------------------------------------------------------------------------
(* Bounds of the model *)

NumWords == 4      \* words of the user in the generation specifications
LifeWords == 2     \* words of the user in the one-day life-cycle specification
DayWords == 1      \* words of the user in the multi-day and completion-race specifications
MaxDays == 2       \* calendar dates the scheduler runs through

-----------------------------------------------------------------------------
(* Program constants *)

MaxPriority == 4
PassPriority == 1
FailPriority == 2
MasteryThreshold == 3
MaxTasks == 8
NumOptions == 4

NoResult == "null"      \* TaskItem.result before completion
NullSeq == << >>        \* null for chatId, question, options, optionReasons
NoOption == 0           \* null for correctOption
NoDate == 0             \* null for lastReviewedAt / lastPromotedAt

\* The frontend is not part of a specification of the backend alone.
\* The session (store, requests, location) is not part of a specification
\* of one page.
NoSession ==
    auth = NullSeq /\ calls = NullSeq /\ location = NullSeq /\ forgot = NullSeq

NoFrontend ==
    page = NullSeq /\ dialog = NullSeq /\ addWords = NullSeq /\ NoSession

Priorities == 1..MaxPriority
TaskTypes == {"MEANING", "SENTENCE", "MCQ", "PARAGRAPH"}
TaskResults == {"PASS", "FAIL"}

\* Mutant: the quotas of the MCQ and PARAGRAPH tiers exchanged.
TierRequiredSwapped(p) ==
    CASE p = 1 -> 1
      [] p = 2 -> 2
      [] p = 3 -> 2
      [] OTHER -> 3

\* Words each priority tier contributes to a batch.
TierRequired(p) ==
    CASE p = 1 -> 1
      [] p = 2 -> 2
      [] p = 3 -> 3
      [] OTHER -> 2

\* The task type a tier's words are practised with.
TaskTypeOf(p) ==
    CASE p = 1 -> "MEANING"
      [] p = 2 -> "SENTENCE"
      [] p = 3 -> "MCQ"
      [] OTHER -> "PARAGRAPH"

ZeroStats == [meaning |-> 0, sentence |-> 0, paragraph |-> 0]

\* A Word document (the fields the core reads or writes).
Word(p, st, mc) ==
    [priority |-> p, state |-> st, masteryCount |-> mc,
     lastReviewedAt |-> NoDate, lastPromotedAt |-> NoDate,
     failureStats |-> ZeroStats]

-----------------------------------------------------------------------------
(* 4.1 Daily Task Selector *)

Min(a, b) == IF a < b THEN a ELSE b

ActiveWords(ws) == {w \in DOMAIN ws : ws[w].state = "ACTIVE"}

Bucket(ws, p) == {w \in ActiveWords(ws) : ws[w].priority = p}

\* Up to TierRequired(p) words of the tier's bucket, in insertion (id) order.
SelectTier(ws, p) ==
    {w \in Bucket(ws, p) :
        Cardinality({v \in Bucket(ws, p) : v < w}) < TierRequired(p)}

Selected(ws) == UNION {SelectTier(ws, p) : p \in Priorities}

RECURSIVE SortedSeq(_)
SortedSeq(S) ==
    IF S = {} THEN << >>
    ELSE LET m == CHOOSE x \in S : \A y \in S : x <= y
         IN  <<m>> \o SortedSeq(S \ {m})

-----------------------------------------------------------------------------
(* 4.2 Priority Rebalancer *)

\* Mutant: the increment without its clamp.
BumpPriorityNoClamp(p) == p + 1

BumpPriority(p) == Min(p + 1, MaxPriority)

\* updateWord(w, {priority: ...}) for every ACTIVE word of the fetched list
\* that was not selected; the patch is computed from the fetched document.
RebalanceWrite(cur, fetched, sel) ==
    [w \in DOMAIN cur |->
        IF fetched[w].state = "ACTIVE" /\ w \notin sel
        THEN [cur[w] EXCEPT !.priority = BumpPriority(fetched[w].priority)]
        ELSE cur[w]]

Rebalance(ws, sel) == RebalanceWrite(ws, ws, sel)

-----------------------------------------------------------------------------
(* 4.3 Task Batch Builder *)

\* What generateMCQ(word) returns when it succeeds, stored verbatim.
McqFor(w) ==
    [question |-> <<"question", w>>,
     options |-> [i \in 1..NumOptions |-> <<"option", i>>],
     correctOption |-> ((w - 1) % NumOptions) + 1,
     optionReasons |-> [i \in 1..NumOptions |-> <<"reason", i>>]]

\* Mutant: an MCQ task is created without a chatId.
MakeTaskMcqNoChat(d, k, w, type) ==
    [taskId |-> <<d, k>>,
     type |-> type,
     wordIds |-> <<w>>,
     status |-> "PENDING",
     result |-> NoResult,
     chatId |-> IF type = "MCQ" THEN NullSeq ELSE <<"chat", d, k>>,
     question |-> IF type = "MCQ" THEN McqFor(w).question ELSE NullSeq,
     options |-> IF type = "MCQ" THEN McqFor(w).options ELSE NullSeq,
     correctOption |-> IF type = "MCQ" THEN McqFor(w).correctOption ELSE NoOption,
     optionReasons |-> IF type = "MCQ" THEN McqFor(w).optionReasons ELSE NullSeq]

\* A TaskItem as GET /api/tasks/today returns it after generation: each
\* task, the MCQ task included, carries its own chatId.
MakeTask(d, k, w, type) ==
    [taskId |-> <<d, k>>,
     type |-> type,
     wordIds |-> <<w>>,
     status |-> "PENDING",
     result |-> NoResult,
     chatId |-> <<"chat", d, k>>,
     question |-> IF type = "MCQ" THEN McqFor(w).question ELSE NullSeq,
     options |-> IF type = "MCQ" THEN McqFor(w).options ELSE NullSeq,
     correctOption |-> IF type = "MCQ" THEN McqFor(w).correctOption ELSE NoOption,
     optionReasons |-> IF type = "MCQ" THEN McqFor(w).optionReasons ELSE NullSeq]

\* The selected words in tier order 1 -> 4; a priority-3 word whose question
\* generation failed (mcqFailed) is skipped.
TaskWords(ws, sel, mcqFailed) ==
    LET tier(p) == SortedSeq({w \in sel : ws[w].priority = p
                                 /\ ~(TaskTypeOf(p) = "MCQ" /\ w \in mcqFailed)})
    IN  tier(1) \o tier(2) \o tier(3) \o tier(4)

\* Mutant: one task per tier, holding all the tier's words.
BuildTasksPerTier(ws, sel, mcqFailed, d) ==
    LET tiers == SortedSeq({p \in Priorities : \E w \in sel : ws[w].priority = p})
    IN  [k \in 1..Len(tiers) |->
            [MakeTask(d, k, CHOOSE w \in sel : ws[w].priority = tiers[k],
                      TaskTypeOf(tiers[k]))
                EXCEPT !.wordIds = SortedSeq({w \in sel : ws[w].priority = tiers[k]})]]

\* Mutant: a word whose question generation failed still gets its MCQ
\* task, without the question.
BuildTasksKeepFailed(ws, sel, mcqFailed, d) ==
    LET tw == TaskWords(ws, sel, {})
    IN  [k \in 1..Len(tw) |->
            IF tw[k] \in mcqFailed
            THEN [MakeTask(d, k, tw[k], TaskTypeOf(ws[tw[k]].priority))
                    EXCEPT !.question = NullSeq]
            ELSE MakeTask(d, k, tw[k], TaskTypeOf(ws[tw[k]].priority))]

BuildTasks(ws, sel, mcqFailed, d) ==
    LET tw == TaskWords(ws, sel, mcqFailed)
    IN  [k \in 1..Len(tw) |-> MakeTask(d, k, tw[k], TaskTypeOf(ws[tw[k]].priority))]

MakeBatch(d, tasks) == [date |-> d, tasks |-> tasks]

\* getBatch(userId, date)
BatchesOf(bs, d) == {i \in 1..Len(bs) : bs[i].date = d}

BatchExists(bs, d) == BatchesOf(bs, d) # {}

\* The priority-3 words of a selection: one generateMCQ call each.
McqWords(ws, sel) == {w \in sel : TaskTypeOf(ws[w].priority) = "MCQ"}


-----------------------------------------------------------------------------
(* 4.4 Task Completion Handler: the word's transition *)

\* Mutant: an MCQ failure tallied under meaning.
BumpFailureAny(fs, type) ==
    CASE type = "SENTENCE"  -> [fs EXCEPT !.sentence = @ + 1]
      [] type = "PARAGRAPH" -> [fs EXCEPT !.paragraph = @ + 1]
      [] OTHER              -> [fs EXCEPT !.meaning = @ + 1]

BumpFailure(fs, type) ==
    CASE type = "MEANING"   -> [fs EXCEPT !.meaning = @ + 1]
      [] type = "SENTENCE"  -> [fs EXCEPT !.sentence = @ + 1]
      [] type = "PARAGRAPH" -> [fs EXCEPT !.paragraph = @ + 1]
      [] OTHER              -> fs

\* Mutant: every PASS counts towards mastery.
CountsAnyPass(word) == TRUE

\* A PASS counts towards mastery when the word was at priority 4.
CountsForMastery(word) == word.priority = MaxPriority

\* Mutant: a PASS demotes by one tier instead of resetting to 1.
ApplyPassDemote(word, now) ==
    [word EXCEPT !.priority = IF @ > PassPriority THEN @ - 1 ELSE PassPriority,
                 !.lastReviewedAt = now]

ApplyPass(word, now) ==
    LET mc == IF CountsForMastery(word) THEN word.masteryCount + 1
              ELSE word.masteryCount
        mastered == CountsForMastery(word) /\ mc >= MasteryThreshold
    IN  [word EXCEPT !.priority = PassPriority,
                     !.lastReviewedAt = now,
                     !.masteryCount = mc,
                     !.state = IF mastered THEN "MASTERED" ELSE @,
                     !.lastPromotedAt = IF mastered THEN now ELSE @]

ApplyFail(word, type, now) ==
    [word EXCEPT !.priority = FailPriority,
                 !.lastReviewedAt = now,
                 !.failureStats = BumpFailure(@, type)]

ApplyResult(word, type, r, now) ==
    IF r = "PASS" THEN ApplyPass(word, now) ELSE ApplyFail(word, type, now)

\* getTask(taskId): the positions <<batch, index>> holding the task.
FindTask(bs, t) ==
    {<<i, k>> \in (1..Len(bs)) \X (1..MaxTasks) :
        k <= Len(bs[i].tasks) /\ bs[i].tasks[k].taskId = t}

TaskAt(bs, pos) == bs[pos[1]].tasks[pos[2]]

\* Mutant: the status is not looked at.
CanCompleteAlways(task) == TRUE

\* The precondition status == PENDING, read by the handler and again the
\* condition of its conditional update.
CanComplete(task) == task.status = "PENDING"

\* updateTask(taskId, {status: COMPLETED, result})
WriteTask(bs, pos, r) ==
    [bs EXCEPT ![pos[1]].tasks[pos[2]] =
        [@ EXCEPT !.status = "COMPLETED", !.result = r]]

TaskWord(task) == task.wordIds[1]

\* updateWord(wordId, patch) with the transition of the task's single word
WriteWord(ws, task, r, now) ==
    [ws EXCEPT ![TaskWord(task)] = ApplyResult(@, task.type, r, now)]

-----------------------------------------------------------------------------
(* Handlers, each as one step *)

\* A handler's call as the caller sees it; a generation run reports the
\* word references the selector chose.
Call(op, t, r, resp) ==
    [op |-> op, taskId |-> t, result |-> r, response |-> resp, selected |-> {}]

GenerateCall(resp, sel) ==
    [op |-> "generate", taskId |-> NullSeq, result |-> NoResult,
     response |-> resp, selected |-> sel]

NoRuns == << >>

\* Mutant: the idempotency key is never found.
AlreadyGeneratedNever(bs, d) == FALSE

\* The idempotency key (user, date), checked before generation runs.
AlreadyGenerated(bs, d) == BatchExists(bs, d)

\* The unique constraint on (user, date) of createBatch.
UniqueViolation(bs, d) == BatchExists(bs, d)

\* The scheduler's "generate today's batch for user X".
GenerateDaily ==
    /\ IF AlreadyGenerated(batches, date)
       THEN /\ lastCall' = GenerateCall("existing", {})
            /\ UNCHANGED <<words, batches>>
       ELSE \E mcqFailed \in SUBSET McqWords(words, Selected(words)) :
              LET sel == Selected(words)
                  tasks == BuildTasks(words, sel, mcqFailed, date)
              IN  /\ words' = Rebalance(words, sel)
                  /\ IF UniqueViolation(batches, date)
                     THEN /\ batches' = batches
                          /\ lastCall' = GenerateCall("existing", {})
                     ELSE /\ batches' = Append(batches, MakeBatch(date, tasks))
                          /\ lastCall' = GenerateCall(
                                IF mcqFailed = {} THEN "created" ELSE "partial", sel)
    /\ UNCHANGED <<date, gen, req, frontend>>

\* The task ids a request can carry: those of today's batches and one more,
\* which names no task.
TaskIdSpace ==
    LET n == IF batches = << >> THEN 0 ELSE Len(batches[1].tasks)
    IN  {<<date, k>> : k \in 1..Min(n + 1, MaxTasks + 1)}

\* POST /api/tasks/{task_id}/complete with body {result}.
CompleteTask(t, r) ==
    /\ LET found == FindTask(batches, t)
       IN  IF found = {}
           THEN /\ lastCall' = Call("complete", t, r, "NotFoundError")
                /\ UNCHANGED <<words, batches>>
           ELSE LET pos == CHOOSE x \in found : \A y \in found : x[1] <= y[1]
                    task == TaskAt(batches, pos)
                IN  IF ~CanComplete(task)
                    THEN /\ lastCall' = Call("complete", t, r, "InvalidStateError")
                         /\ UNCHANGED <<words, batches>>
                    ELSE /\ batches' = WriteTask(batches, pos, r)
                         /\ words' = WriteWord(words, task, r, date)
                         /\ lastCall' = Call("complete", t, r, "OK")
    /\ UNCHANGED <<date, gen, req>>

\* Midnight: the next calendar date begins.  Batches of earlier dates are
\* history no handler reads or writes; they leave the modelled store.
NextDay ==
    /\ date < MaxDays
    /\ date' = date + 1
    /\ batches' = << >>
    /\ lastCall' = Call("tick", NullSeq, NoResult, "OK")
    /\ UNCHANGED <<words, gen, req, frontend>>

-----------------------------------------------------------------------------
(* Generation as the steps of one run, for runs that interleave *)

Runners == {"runA", "runB"}

NewRun == [pc |-> "check", fetched |-> << >>, sel |-> {}, tasks |-> << >>,
           partial |-> FALSE, response |-> "none"]

\* The idempotency key is looked up.
GenCheck(r) ==
    /\ gen[r].pc = "check"
    /\ gen' = IF AlreadyGenerated(batches, date)
              THEN [gen EXCEPT ![r].pc = "done", ![r].response = "existing"]
              ELSE [gen EXCEPT ![r].pc = "select"]
    /\ UNCHANGED <<words, date, batches, lastCall, req, frontend>>

\* 4.1: listActiveWords and the selection.
GenSelect(r) ==
    /\ gen[r].pc = "select"
    /\ gen' = [gen EXCEPT ![r].pc = "rebalance",
                          ![r].fetched = words,
                          ![r].sel = Selected(words)]
    /\ UNCHANGED <<words, date, batches, lastCall, req, frontend>>

\* 4.2: the non-selected words of the fetched list are written.
GenRebalance(r) ==
    /\ gen[r].pc = "rebalance"
    /\ words' = RebalanceWrite(words, gen[r].fetched, gen[r].sel)
    /\ gen' = [gen EXCEPT ![r].pc = "build"]
    /\ UNCHANGED <<date, batches, lastCall, req, frontend>>

\* 4.3: the tasks are built, one generateMCQ call per priority-3 word.
GenBuild(r) ==
    /\ gen[r].pc = "build"
    /\ \E mcqFailed \in SUBSET McqWords(gen[r].fetched, gen[r].sel) :
         gen' = [gen EXCEPT ![r].pc = "create",
                            ![r].tasks = BuildTasks(gen[r].fetched, gen[r].sel,
                                                    mcqFailed, date),
                            ![r].partial = (mcqFailed # {})]
    /\ UNCHANGED <<words, date, batches, lastCall, req, frontend>>

\* 4.3: createBatch under the unique constraint on (user, date).
GenCreate(r) ==
    /\ gen[r].pc = "create"
    /\ IF UniqueViolation(batches, date)
       THEN /\ gen' = [gen EXCEPT ![r].pc = "done", ![r].response = "existing"]
            /\ UNCHANGED batches
       ELSE /\ batches' = Append(batches, MakeBatch(date, gen[r].tasks))
            /\ gen' = [gen EXCEPT ![r].pc = "done",
                         ![r].response = IF gen[r].partial THEN "partial"
                                         ELSE "created"]
    /\ UNCHANGED <<words, date, lastCall, req, frontend>>

-----------------------------------------------------------------------------
(* Completion as the steps of one request, for requests that interleave *)

Requests == {"reqA", "reqB"}

NewRequest == [pc |-> "idle", taskId |-> NullSeq, result |-> NoResult,
               pos |-> NullSeq, wrote |-> FALSE, response |-> "none"]

\* The request arrives with its (taskId, result).
ReqArrive(q) ==
    /\ req[q].pc = "idle"
    /\ \E t \in TaskIdSpace, r \in TaskResults :
         req' = [req EXCEPT ![q].pc = "read", ![q].taskId = t, ![q].result = r]
    /\ UNCHANGED <<words, date, batches, lastCall, gen, frontend>>

\* getTask(taskId) and the precondition status == PENDING.
ReqRead(q) ==
    /\ req[q].pc = "read"
    /\ LET found == FindTask(batches, req[q].taskId)
       IN  IF found = {}
           THEN req' = [req EXCEPT ![q].pc = "done", ![q].response = "NotFoundError"]
           ELSE LET pos == CHOOSE x \in found : \A y \in found : x[1] <= y[1]
                IN  IF ~CanComplete(TaskAt(batches, pos))
                    THEN req' = [req EXCEPT ![q].pc = "done",
                                            ![q].response = "InvalidStateError"]
                    ELSE req' = [req EXCEPT ![q].pc = "writeTask", ![q].pos = pos]
    /\ UNCHANGED <<words, date, batches, lastCall, gen, frontend>>

\* updateTask, conditional on the status still being PENDING.
ReqWriteTask(q) ==
    /\ req[q].pc = "writeTask"
    /\ IF CanComplete(TaskAt(batches, req[q].pos))
       THEN /\ batches' = WriteTask(batches, req[q].pos, req[q].result)
            /\ req' = [req EXCEPT ![q].pc = "writeWord"]
       ELSE /\ req' = [req EXCEPT ![q].pc = "done",
                                  ![q].response = "InvalidStateError"]
            /\ UNCHANGED batches
    /\ UNCHANGED <<words, date, lastCall, gen, frontend>>

\* The task's single word is looked up and its transition written.
ReqWriteWord(q) ==
    /\ req[q].pc = "writeWord"
    /\ words' = WriteWord(words, TaskAt(batches, req[q].pos), req[q].result, date)
    /\ req' = [req EXCEPT ![q].pc = "done", ![q].wrote = TRUE, ![q].response = "OK"]
    /\ UNCHANGED <<date, batches, lastCall, gen, frontend>>

-----------------------------------------------------------------------------
(* Specifications *)

InitCommon ==
    /\ date = 1
    /\ batches = << >>
    /\ lastCall = Call("init", NullSeq, NoResult, "OK")
    /\ gen = NoRuns
    /\ req = NoRuns
    /\ NoFrontend

\* A word as the life cycle can leave it: ACTIVE at any priority, with no
\* mastery yet or one priority-4 pass short of the threshold.
LifeWordInits ==
    {Word(p, "ACTIVE", mc) : p \in Priorities, mc \in {0, MasteryThreshold - 1}}

\* A word as generation can find it: ACTIVE at any priority, or MASTERED.
GenWordInits ==
    {Word(p, "ACTIVE", 0) : p \in Priorities}
        \cup {Word(PassPriority, "MASTERED", MasteryThreshold)}

Init ==
    /\ words \in [1..LifeWords -> LifeWordInits]
    /\ InitCommon

Completion ==
    /\ \E t \in TaskIdSpace, r \in TaskResults : CompleteTask(t, r)
    /\ UNCHANGED frontend

\* One date: generation, completions and repeated triggers of the job.
Next == GenerateDaily \/ Completion

Spec == Init /\ [][Next]_vars

\* Several dates.
InitDays ==
    /\ words \in [1..DayWords -> LifeWordInits]
    /\ InitCommon

NextDays == GenerateDaily \/ Completion \/ NextDay

SpecDays == InitDays /\ [][NextDays]_vars

InitGen ==
    /\ words \in [1..NumWords -> GenWordInits]
    /\ InitCommon

NextGen == GenerateDaily \/ NextDay

SpecGen == InitGen /\ [][NextGen]_vars


\* Two runs of the generation job for the same (user, date), interleaved.
InitGenRace ==
    /\ words \in [1..NumWords -> {Word(p, "ACTIVE", 0) : p \in Priorities}]
    /\ date = 1
    /\ batches = << >>
    /\ lastCall = Call("init", NullSeq, NoResult, "OK")
    /\ gen = [r \in Runners |-> NewRun]
    /\ req = NoRuns
    /\ NoFrontend

GenCheckStep == \E r \in Runners : GenCheck(r)
GenSelectStep == \E r \in Runners : GenSelect(r)
GenRebalanceStep == \E r \in Runners : GenRebalance(r)
GenBuildStep == \E r \in Runners : GenBuild(r)
GenCreateStep == \E r \in Runners : GenCreate(r)

NextGenRace ==
    GenCheckStep \/ GenSelectStep \/ GenRebalanceStep \/ GenBuildStep \/ GenCreateStep

SpecGenRace == InitGenRace /\ [][NextGenRace]_vars

\* Two completion requests, interleaved, after the day's generation.
InitCompleteRace ==
    /\ words \in [1..DayWords -> LifeWordInits]
    /\ date = 1
    /\ batches = << >>
    /\ lastCall = Call("init", NullSeq, NoResult, "OK")
    /\ gen = NoRuns
    /\ req = [q \in Requests |-> NewRequest]
    /\ NoFrontend

Generated == BatchExists(batches, date)

GenerateOnce == ~Generated /\ GenerateDaily

ReqArriveStep == \E q \in Requests : Generated /\ ReqArrive(q)
ReqReadStep == \E q \in Requests : ReqRead(q)
ReqWriteTaskStep == \E q \in Requests : ReqWriteTask(q)
ReqWriteWordStep == \E q \in Requests : ReqWriteWord(q)

NextCompleteRace ==
    GenerateOnce \/ ReqArriveStep \/ ReqReadStep \/ ReqWriteTaskStep \/ ReqWriteWordStep

SpecCompleteRace == InitCompleteRace /\ [][NextCompleteRace]_vars

-----------------------------------------------------------------------------
(* Vocabulary of the properties *)

\* A step in which createBatch stored a new batch, and that batch.
IsCreation == Len(batches') = Len(batches) + 1

NewBatch == batches'[Len(batches')]

CountType(tasks, ty) == Cardinality({k \in 1..Len(tasks) : tasks[k].type = ty})

\* ni: the ACTIVE words at priority i.
ActiveAt(ws, i) ==
    Cardinality({w \in DOMAIN ws : ws[w].state = "ACTIVE" /\ ws[w].priority = i})

BatchWords(b) == {b.tasks[k].wordIds[j] : k \in 1..Len(b.tasks), j \in 1..1}

TodaysTasks == IF batches = << >> THEN << >> ELSE batches[1].tasks

TodaysWords == {TodaysTasks[k].wordIds[1] : k \in 1..Len(TodaysTasks)}

-----------------------------------------------------------------------------
(* C1 *)

-----------------------------------------------------------------------------
(* C2 *)

\* C2: in a generation cycle every ACTIVE word the selector did not choose
\* gets priority min(old + 1, 4) and nothing else of it changes; every
\* chosen word, and every word that is not ACTIVE, is left exactly as it
\* was; the batch's words are among the chosen ones.
C2_RebalanceFrame ==
    [][IsCreation =>
        LET sel == lastCall'.selected
        IN  /\ BatchWords(NewBatch) \subseteq sel
            /\ \A w \in DOMAIN words :
                 IF words[w].state = "ACTIVE" /\ w \notin sel
                 THEN words'[w] =
                        [words[w] EXCEPT !.priority = Min(words[w].priority + 1, 4)]
                 ELSE words'[w] = words[w]]_vars

\* After a cycle with both PARAGRAPH tasks and no MCQ task: an ACTIVE word
\* left out at priority 4 (it was at 4 and is held there), beside two
\* selected words and a MASTERED word the rebalancer passed over.
C2_Witness ==
    /\ lastCall.op = "generate"
    /\ lastCall.response = "created"
    /\ CountType(TodaysTasks, "PARAGRAPH") = 2
    /\ CountType(TodaysTasks, "MCQ") = 0
    /\ \E w \in DOMAIN words \ lastCall.selected :
         words[w].state = "ACTIVE" /\ words[w].priority = 4
    /\ \E w \in DOMAIN words : words[w].state = "MASTERED"

-----------------------------------------------------------------------------
(* C3 *)

\* C3: in every batch each TaskItem references exactly one word and no
\* word id appears in two TaskItems.
C3_OneWordPerTask ==
    \A i \in 1..Len(batches) :
        LET tasks == batches[i].tasks
        IN  /\ \A k \in 1..Len(tasks) : Len(tasks[k].wordIds) = 1
            /\ \A j, k \in 1..Len(tasks) :
                 j # k => \A a \in 1..Len(tasks[j].wordIds), b \in 1..Len(tasks[k].wordIds) :
                            tasks[j].wordIds[a] # tasks[k].wordIds[b]

\* A batch with tasks of several types, four tasks in all.
C3_Witness ==
    /\ Len(TodaysTasks) = 4
    /\ Cardinality({TodaysTasks[k].type : k \in 1..Len(TodaysTasks)}) >= 3

-----------------------------------------------------------------------------
(* C4 *)

\* C4: a generation run for a (user, date) that already has a batch
\* reports the existing batch and changes nothing: no task is added, no
\* task (so no MCQ) is rebuilt, no word is touched.
C4_RegenerationIsNoOp ==
    [][(lastCall'.op = "generate" /\ Len(batches) >= 1) =>
          /\ lastCall'.response = "existing"
          /\ batches' = batches
          /\ words' = words]_vars

\* A repeated trigger answered with the existing batch, one of whose tasks
\* is already COMPLETED, while an ACTIVE word outside the batch could still
\* be raised.
C4_Witness ==
    /\ lastCall.op = "generate"
    /\ lastCall.response = "existing"
    /\ \E k \in 1..Len(TodaysTasks) : TodaysTasks[k].status = "COMPLETED"
    /\ \E w \in DOMAIN words :
         /\ w \notin TodaysWords
         /\ words[w].state = "ACTIVE"
         /\ words[w].priority < 4

-----------------------------------------------------------------------------
(* C5 *)

\* C5 as stated: under any interleaving of two generation runs for the
\* same (user, date) at most one batch exists for it, and no word is
\* raised by more than 1 above the priority a run fetched that date.
C5_OneBatchOneIncrement ==
    /\ Cardinality(BatchesOf(batches, date)) <= 1
    /\ \A r \in Runners :
         gen[r].fetched # << >> =>
            \A w \in DOMAIN words :
                words[w].priority <= gen[r].fetched[w].priority + 1

-----------------------------------------------------------------------------
(* C6 to C9: the completion handler *)

\* The step is a completion call that was accepted, with result r.
Accepted(r) ==
    /\ lastCall'.op = "complete"
    /\ lastCall'.response = "OK"
    /\ lastCall'.result = r
    /\ batches' # batches

\* The task a call names, as the batch held it before the step.
CalledTask(call) ==
    LET k == CHOOSE k \in 1..Len(TodaysTasks) : TodaysTasks[k].taskId = call.taskId
    IN  TodaysTasks[k]

CallNamesTask(call) ==
    \E k \in 1..Len(TodaysTasks) : TodaysTasks[k].taskId = call.taskId

\* C6: completing a PENDING task with PASS sets its word's priority to 1
\* whatever it was before and leaves the word's failureStats unchanged.
C6_PassResetsPriority ==
    [][Accepted("PASS") =>
        LET w == CalledTask(lastCall').wordIds[1]
        IN  /\ CalledTask(lastCall').status = "PENDING"
            /\ words'[w].priority = 1
            /\ words'[w].failureStats = words[w].failureStats]_vars

\* A PARAGRAPH task (its word was at priority 4) completed with PASS beside
\* a MEANING task completed with PASS, both words now at priority 1.
C6_Witness ==
    /\ \E k \in 1..Len(TodaysTasks) :
         /\ TodaysTasks[k].type = "PARAGRAPH"
         /\ TodaysTasks[k].result = "PASS"
         /\ words[TodaysTasks[k].wordIds[1]].priority = 1
    /\ \E k \in 1..Len(TodaysTasks) :
         /\ TodaysTasks[k].type = "MEANING"
         /\ TodaysTasks[k].result = "PASS"
         /\ words[TodaysTasks[k].wordIds[1]].priority = 1

\* C7: completing a PENDING task with FAIL sets its word's priority to 2
\* and raises by exactly 1 the failureStats counter of the task's type
\* (meaning, sentence, paragraph) and no other; for an MCQ task no counter
\* changes.
C7_FailSetsPriorityAndStats ==
    [][Accepted("FAIL") =>
        LET task == CalledTask(lastCall')
            w == task.wordIds[1]
            old == words[w].failureStats
            new == words'[w].failureStats
            d(ty) == IF task.type = ty THEN 1 ELSE 0
        IN  /\ task.status = "PENDING"
            /\ words'[w].priority = 2
            /\ new.meaning = old.meaning + d("MEANING")
            /\ new.sentence = old.sentence + d("SENTENCE")
            /\ new.paragraph = old.paragraph + d("PARAGRAPH")]_vars

\* A SENTENCE task failed (only the sentence counter is 1) beside an MCQ
\* task failed (no counter moved), both words at priority 2.
C7_Witness ==
    /\ \E k \in 1..Len(TodaysTasks) :
         LET w == TodaysTasks[k].wordIds[1]
         IN  /\ TodaysTasks[k].type = "SENTENCE"
             /\ TodaysTasks[k].result = "FAIL"
             /\ words[w].priority = 2
             /\ words[w].failureStats = [meaning |-> 0, sentence |-> 1, paragraph |-> 0]
    /\ \E k \in 1..Len(TodaysTasks) :
         LET w == TodaysTasks[k].wordIds[1]
         IN  /\ TodaysTasks[k].type = "MCQ"
             /\ TodaysTasks[k].result = "FAIL"
             /\ words[w].priority = 2
             /\ words[w].failureStats = [meaning |-> 0, sentence |-> 0, paragraph |-> 0]

\* C8: masteryCount changes only by +1, in an accepted PASS on a word that
\* was at priority 4; a word whose count reaches 3 becomes MASTERED with
\* priority 1; a MASTERED word stays MASTERED and no batch generated
\* afterwards holds it.
C8_Mastery ==
    [][/\ \A w \in DOMAIN words :
            /\ words'[w].masteryCount # words[w].masteryCount =>
                  /\ words'[w].masteryCount = words[w].masteryCount + 1
                  /\ Accepted("PASS")
                  /\ CalledTask(lastCall').wordIds[1] = w
                  /\ words[w].priority = 4
            /\ (words[w].masteryCount < 3 /\ words'[w].masteryCount = 3) =>
                  /\ words'[w].state = "MASTERED"
                  /\ words'[w].priority = 1
            /\ (Accepted("PASS") /\ CalledTask(lastCall').wordIds[1] = w
                    /\ words[w].priority = 4) =>
                  words'[w].masteryCount = words[w].masteryCount + 1
            /\ words[w].state = "MASTERED" => words'[w].state = "MASTERED"
       /\ IsCreation =>
            \A w \in BatchWords(NewBatch) : words[w].state # "MASTERED"]_vars

\* A word MASTERED with masteryCount 3 and priority 1 on an earlier date,
\* and today's batch, generated since, without it.
C8_Witness ==
    /\ batches # << >>
    /\ lastCall.op = "generate"
    /\ lastCall.response = "created"
    /\ \E w \in DOMAIN words :
         /\ words[w].state = "MASTERED"
         /\ words[w].masteryCount = 3
         /\ words[w].priority = 1
         /\ words[w].lastPromotedAt # 0
         /\ words[w].lastPromotedAt < date
         /\ w \notin TodaysWords

\* C9: a task only moves PENDING -> COMPLETED and is never changed once
\* COMPLETED; a completion call on a COMPLETED task fails with
\* InvalidStateError and changes neither the batch nor any word, whatever
\* result it carries.
C9_CompletedIsTerminal ==
    [][/\ \A k \in 1..Len(TodaysTasks) :
            TodaysTasks[k].status = "COMPLETED" =>
                \/ batches' = << >>
                \/ batches'[1].tasks[k] = TodaysTasks[k]
       /\ (lastCall'.op = "complete" /\ CallNamesTask(lastCall')
              /\ CalledTask(lastCall').status = "COMPLETED") =>
            /\ lastCall'.response = "InvalidStateError"
            /\ batches' = batches
            /\ words' = words]_vars

\* A second call on a COMPLETED task, carrying the opposite result, was
\* refused; the task keeps the first result and the word the first
\* transition (FAIL: priority 2).
C9_Witness ==
    /\ lastCall.op = "complete"
    /\ lastCall.response = "InvalidStateError"
    /\ lastCall.result = "PASS"
    /\ CallNamesTask(lastCall)
    /\ CalledTask(lastCall).status = "COMPLETED"
    /\ CalledTask(lastCall).result = "FAIL"
    /\ words[CalledTask(lastCall).wordIds[1]].priority = 2

-----------------------------------------------------------------------------
(* C10 *)

\* The requests that have finished and name the task t.
DoneOn(t) == {q \in Requests : req[q].pc = "done" /\ req[q].taskId = t}

\* C10: when both requests name the same existing task and both have
\* finished, exactly one succeeded and the other failed with
\* InvalidStateError; the task holds the winner's result, one request
\* alone wrote the word, and the word shows that one transition.
C10_OneCompletionWins ==
    \A k \in 1..Len(TodaysTasks) :
        LET task == TodaysTasks[k]
            w == task.wordIds[1]
        IN  DoneOn(task.taskId) = Requests =>
              /\ \E q \in Requests :
                   /\ req[q].response = "OK"
                   /\ req[q].wrote
                   /\ task.status = "COMPLETED"
                   /\ task.result = req[q].result
                   /\ \A o \in Requests \ {q} :
                        /\ req[o].response = "InvalidStateError"
                        /\ ~req[o].wrote
              /\ words[w].priority = (IF task.result = "PASS" THEN 1 ELSE 2)
              /\ words[w].failureStats.meaning =
                    (IF task.result = "FAIL" /\ task.type = "MEANING" THEN 1 ELSE 0)
              /\ words[w].failureStats.sentence =
                    (IF task.result = "FAIL" /\ task.type = "SENTENCE" THEN 1 ELSE 0)
              /\ words[w].failureStats.paragraph =
                    (IF task.result = "FAIL" /\ task.type = "PARAGRAPH" THEN 1 ELSE 0)

\* Both requests named one task with opposite results and both read it
\* PENDING (each holds its position); one won, the other was refused at the
\* conditional write.
C10_Witness ==
    /\ \A q \in Requests : req[q].pc = "done" /\ req[q].pos # << >>
    /\ req["reqA"].taskId = req["reqB"].taskId
    /\ req["reqA"].result # req["reqB"].result
    /\ req["reqA"].response = "InvalidStateError"
    /\ req["reqB"].response = "OK"

-----------------------------------------------------------------------------
(* C11: word creation beside generation and completion *)

\* Words the user adds during a run of the vocabulary specification.
NewWords == 1

\* A word is added: it starts ACTIVE at priority 1 with no mastery.
NewWord == Word(PassPriority, "ACTIVE", 0)

\* Words of a vocabulary in use: fresh at priority 1, or waiting at
\* priority 4 with no mastery or one pass short of it.
VocabularyInits ==
    {NewWord, Word(MaxPriority, "ACTIVE", 0),
     Word(MaxPriority, "ACTIVE", MasteryThreshold - 1)}

\* POST /api/words: the new word joins the user's words.
CreateWord ==
    /\ Len(words) < LifeWords + 1 + NewWords
    /\ words' = Append(words, NewWord)
    /\ lastCall' = Call("createWord", NullSeq, NoResult, "OK")
    /\ UNCHANGED <<date, batches, gen, req, frontend>>

InitVocabulary ==
    /\ words \in [1..(LifeWords + 1) -> VocabularyInits]
    /\ InitCommon

\* One date: words are added before and after the day's generation.
NextVocabulary == CreateWord \/ GenerateDaily \/ Completion

SpecVocabulary == InitVocabulary /\ [][NextVocabulary]_vars

\* C11: in every state reached through word creation, daily generation
\* with its rebalancing, and PASS / FAIL completions, every word's priority
\* is one of 1, 2, 3, 4 and its masteryCount is at least 0.
C11_PriorityInRange ==
    \A w \in DOMAIN words :
        /\ words[w].priority \in {1, 2, 3, 4}
        /\ words[w].masteryCount >= 0

\* A word was added since the start; today's batch holds two PARAGRAPH
\* tasks, one of them failed (its word now at 2), and a third priority-4
\* word, left out by the selector, is still at priority 4.
C11_Witness ==
    /\ Len(words) > LifeWords + 1
    /\ CountType(TodaysTasks, "PARAGRAPH") = 2
    /\ \E k \in 1..Len(TodaysTasks) :
         /\ TodaysTasks[k].result = "FAIL"
         /\ words[TodaysTasks[k].wordIds[1]].priority = 2
    /\ \E w \in DOMAIN words \ TodaysWords :
         /\ words[w].state = "ACTIVE"
         /\ words[w].priority = 4

-----------------------------------------------------------------------------
(* C12: a completion that fails between its two writes *)

\* updateWord fails (the store's error propagates to the caller) after
\* updateTask has been applied; nothing undoes the task's write.
ReqWriteWordFails(q) ==
    /\ req[q].pc = "writeWord"
    /\ req' = [req EXCEPT ![q].pc = "done", ![q].response = "PersistenceError"]
    /\ UNCHANGED <<words, date, batches, lastCall, gen, frontend>>

ReqWriteWordFailsStep == \E q \in Requests : ReqWriteWordFails(q)

NextCompleteFail ==
    \/ GenerateOnce
    \/ ReqArriveStep
    \/ ReqReadStep
    \/ ReqWriteTaskStep
    \/ ReqWriteWordStep
    \/ ReqWriteWordFailsStep

SpecCompleteFail == InitCompleteRace /\ [][NextCompleteFail]_vars

\* No request stands between its write of the task and its write of the word.
NoWriteInProgress == \A q \in Requests : req[q].pc # "writeWord"

-----------------------------------------------------------------------------
(* C13 *)

\* An MCQ task as the MCQ Task structure requires it.
WellFormedMcq(task) ==
    /\ task.question # NullSeq
    /\ Len(task.options) = 4
    /\ task.correctOption \in 1..4
    /\ Len(task.optionReasons) = 4

-----------------------------------------------------------------------------
(* C14 *)

NoMcqFields(task) ==
    /\ task.question = NullSeq
    /\ task.options = NullSeq
    /\ task.correctOption = NoOption
    /\ task.optionReasons = NullSeq

-----------------------------------------------------------------------------
(* C15: generation runs beside completions *)

\* Words early in their life: ACTIVE at priority 1 or 2.
EarlyWordInits == {Word(p, "ACTIVE", 0) : p \in {PassPriority, FailPriority}}

InitGenComplete ==
    /\ words \in [1..NumWords -> EarlyWordInits]
    /\ date = 1
    /\ batches = << >>
    /\ lastCall = Call("init", NullSeq, NoResult, "OK")
    /\ gen = [r \in Runners |-> NewRun]
    /\ req = NoRuns
    /\ NoFrontend

\* Two triggers of the day's generation, and the user completing tasks of
\* the batch once it is stored.
NextGenComplete ==
    \/ GenCheckStep
    \/ GenSelectStep
    \/ GenRebalanceStep
    \/ GenBuildStep
    \/ GenCreateStep
    \/ Completion

SpecGenComplete == InitGenComplete /\ [][NextGenComplete]_vars

\* The words a run's rebalancer has raised: ACTIVE and below priority 4 when
\* the run fetched them, not selected by it, and its rebalance step is done.
RaisedBy(r) ==
    IF gen[r].pc \in {"build", "create", "done"} /\ gen[r].fetched # << >>
    THEN {w \in DOMAIN words :
            /\ w \notin gen[r].sel
            /\ gen[r].fetched[w].state = "ACTIVE"
            /\ gen[r].fetched[w].priority < 4}
    ELSE {}

\* C15 as stated: under any interleaving of generation runs and
\* completions, a word a rebalancer raised on a date has no PENDING task in
\* that date's batch, and no completion's transition is overwritten by a
\* rebalancer: the word of a COMPLETED task is at priority 1 after PASS and
\* at 2 after FAIL.
C15_WritersNeverOverlap ==
    /\ \A r \in Runners : \A w \in RaisedBy(r) :
         \A k \in 1..Len(TodaysTasks) :
            TodaysTasks[k].wordIds[1] = w => TodaysTasks[k].status # "PENDING"
    /\ \A k \in 1..Len(TodaysTasks) :
         TodaysTasks[k].status = "COMPLETED" =>
            words[TodaysTasks[k].wordIds[1]].priority =
                (IF TodaysTasks[k].result = "PASS" THEN 1 ELSE 2)

-----------------------------------------------------------------------------
(* Frontend: the task dialog (TaskDialog) on the Today's Tasks page *)

\* Bounds of the frontend model
MaxTokens == 3       \* length of a typed response, in tokens
MaxInFlight == 2     \* completion requests the browser has in flight

MinParagraphWords == 50

\* A typed response is a sequence of tokens: a space, or a block of
\* BlockWords words joined by single spaces.
Space == " "
Block == "W"

BlockWords == MinParagraphWords \div 2

Tokens == {Space, Block}

\* The values one edit of the textarea turns s into: a token inserted at
\* any position, or one removed.
Edits(s) ==
    {SubSeq(s, 1, i) \o <<t>> \o SubSeq(s, i + 1, Len(s)) :
        i \in {j \in 0..Len(s) : Len(s) < MaxTokens}, t \in Tokens}
    \cup {SubSeq(s, 1, i - 1) \o SubSeq(s, i + 1, Len(s)) : i \in 1..Len(s)}

\* String.prototype.trim()
RECURSIVE TrimLeft(_)
TrimLeft(s) ==
    IF s # << >> /\ Head(s) = Space THEN TrimLeft(Tail(s)) ELSE s

RECURSIVE TrimRight(_)
TrimRight(s) ==
    IF s # << >> /\ s[Len(s)] = Space
    THEN TrimRight(SubSeq(s, 1, Len(s) - 1)) ELSE s

Trim(s) == TrimRight(TrimLeft(s))

\* The words inside the tokens of s: a block starts a word unless it
\* continues the block before it, and holds BlockWords - 1 further words.
WordsIn(s) ==
    Cardinality({i \in 1..Len(s) : s[i] # Space /\ (i = 1 \/ s[i - 1] = Space)})
        + (BlockWords - 1) * Cardinality({i \in 1..Len(s) : s[i] = Block})

\* Mutant: the response is cut at every single space, untrimmed and
\* unfiltered.
WordCountBySpaces(s) ==
    Cardinality({i \in 1..Len(s) : s[i] = Space}) + 1
        + (BlockWords - 1) * Cardinality({i \in 1..Len(s) : s[i] = Block})

\* userResponse.trim().split(/\s+/).filter(Boolean).length: the trimmed
\* text is cut at its runs of spaces; the one empty piece of an empty text
\* is filtered out.
WordCount(s) ==
    LET t == Trim(s)
        pieces == IF t = << >> THEN 1 ELSE WordsIn(t)
        empty == IF t = << >> THEN 1 ELSE 0
    IN  pieces - empty

NoEvaluation == [result |-> NoResult, chatId |-> FALSE]

NoTask ==
    [taskId |-> NullSeq, type |-> "NONE", wordIds |-> NullSeq,
     status |-> "NONE", result |-> NoResult, chatId |-> NullSeq,
     question |-> NullSeq, options |-> NullSeq, correctOption |-> NoOption,
     optionReasons |-> NullSeq]

\* The state of a TaskDialog just mounted for a task, before its effects run.
MountedDialog(task, inflight) ==
    [open |-> TRUE, task |-> task,
     word |-> FALSE, loading |-> FALSE,
     userResponse |-> << >>, selectedOption |-> NoOption,
     evaluation |-> NoEvaluation, showChat |-> FALSE, wordCount |-> 0,
     submitting |-> FALSE, completing |-> FALSE,
     history |-> FALSE,         \* loadChatHistory awaited
     evaluating |-> << >>,      \* evaluateResponse requests awaited
     completions |-> inflight]  \* completeTask requests awaited

\* No dialog is mounted; completeTask requests of earlier dialogs may still
\* be awaited by their handlers.
UnmountedDialog(inflight) ==
    [MountedDialog(NoTask, inflight) EXCEPT !.open = FALSE]

\* The requests of a dialog that goes away belong to no mounted dialog.
Orphaned(inflight) ==
    [i \in 1..Len(inflight) |-> [inflight[i] EXCEPT !.own = FALSE]]

RemoveAt(s, i) == SubSeq(s, 1, i - 1) \o SubSeq(s, i + 1, Len(s))

\* Mutant: the selected option is compared zero-based.
McqIsCorrectZeroBased(selectedOption, correctOption) ==
    selectedOption - 1 = correctOption

\* handleMCQSubmit: isCorrect
McqIsCorrect(selectedOption, correctOption) == selectedOption = correctOption

isCompleted(d) == d.task.status = "COMPLETED"

HasEvaluation(d) == d.evaluation # NoEvaluation

canSubmit(d) ==
    IF d.task.type = "MCQ"
    THEN d.selectedOption # NoOption
    ELSE /\ Len(Trim(d.userResponse)) > 0
         /\ (d.task.type # "PARAGRAPH" \/ d.wordCount >= MinParagraphWords)

\* The body of the dialog shows the task's form: the word is there.
FormShown(d) == d.open /\ ~d.loading /\ d.word

\* The effect on [userResponse, task.type]: the word count of a PARAGRAPH.
WordCountEffect(d) ==
    IF d.task.type = "PARAGRAPH"
    THEN [d EXCEPT !.wordCount = WordCount(d.userResponse)]
    ELSE d

\* handleMCQSubmit
handleMCQSubmit(d) ==
    IF d.selectedOption = NoOption \/ d.task.correctOption = NoOption
    THEN d
    ELSE [d EXCEPT !.evaluation =
            [result |-> IF McqIsCorrect(d.selectedOption, d.task.correctOption)
                        THEN "PASS" ELSE "FAIL",
             chatId |-> FALSE]]

\* The body of an evaluateResponse request.
EvaluateRequest(d) ==
    [wordId |-> d.task.wordIds[1], taskType |-> d.task.type,
     userResponse |-> Trim(d.userResponse)]

\* handleSubmit, up to its await
handleSubmit(d) ==
    IF ~d.word THEN d
    ELSE IF d.task.type = "MCQ"
    THEN IF d.selectedOption = NoOption
         THEN d      \* toast: Please select an option
         ELSE handleMCQSubmit(d)
    ELSE IF d.task.type = "PARAGRAPH" /\ d.wordCount < MinParagraphWords
    THEN d           \* toast: Paragraph must be at least 50 words
    ELSE IF Trim(d.userResponse) = << >>
    THEN d           \* toast: Please enter your response
    ELSE [d EXCEPT !.submitting = TRUE,
                   !.evaluating = Append(@, EvaluateRequest(d))]

\* Mutant: the Complete Task button is never disabled.
CompleteDisabledNever(d) == FALSE

\* <Button onClick={handleCompleteTask} disabled={completing}>
CompleteDisabled(d) == d.completing

\* The Submit button is rendered and enabled.
SubmitEnabled(d) ==
    /\ d.open
    /\ ~HasEvaluation(d) /\ ~isCompleted(d)
    /\ ~(~canSubmit(d) \/ d.submitting \/ ~d.word)

\* The Complete Task button is rendered and enabled.
CompleteEnabled(d) ==
    /\ d.open
    /\ HasEvaluation(d) /\ ~d.showChat
    /\ ~isCompleted(d)
    /\ ~CompleteDisabled(d)

\* handleCompleteTask, up to its await: the request it sends.
CompleteRequest(d) ==
    [taskId |-> d.task.taskId, result |-> d.evaluation.result, own |-> TRUE]

handleCompleteTask(d) ==
    IF ~HasEvaluation(d) THEN d
    ELSE [d EXCEPT !.completing = TRUE,
                   !.completions = Append(@, CompleteRequest(d))]

\* TodaysTasks.fetchTasks, up to its await
fetchTasks(p) == [p EXCEPT !.loading = TRUE, !.fetches = @ + 1]

\* TodaysTasks mounted: its effect has called fetchTasks.
MountedPage == fetchTasks([tasks |-> << >>, loading |-> FALSE, fetches |-> 0])

\* GET /api/tasks/today answered: setTasks(data), then setLoading(false).
FetchTasksResolves ==
    /\ page.fetches > 0
    /\ Generated
    /\ page' = [tasks |-> TodaysTasks, loading |-> FALSE, fetches |-> page.fetches - 1]
    /\ UNCHANGED <<backend, dialog, addWords, session>>

\* GET /api/tasks/today failed: the tasks shown stay as they are.
FetchTasksFails ==
    /\ page.fetches > 0
    /\ page' = [page EXCEPT !.loading = FALSE, !.fetches = @ - 1]
    /\ UNCHANGED <<backend, dialog, addWords, session>>

\* handleTaskClick(task): the dialog is mounted for the task as the page
\* holds it; its effect resets the form and calls fetchWord (and
\* loadChatHistory for a COMPLETED task with a chatId).
handleTaskClick(k) ==
    /\ ~page.loading
    /\ ~dialog.open
    /\ k \in 1..Len(page.tasks)
    /\ LET task == page.tasks[k]
           d == MountedDialog(task, dialog.completions)
       IN  dialog' = IF Len(task.wordIds) > 0
                     THEN [d EXCEPT !.loading = TRUE,
                                    !.history = (task.status = "COMPLETED"
                                                    /\ task.chatId # NullSeq)]
                     ELSE d
    /\ UNCHANGED <<backend, page, addWords, session>>

\* fetchWord answered: the word is found among the user's words, or not.
FetchWordResolves ==
    /\ dialog.open /\ dialog.loading
    /\ \E found \in BOOLEAN :
         dialog' = [dialog EXCEPT !.loading = FALSE, !.word = found]
    /\ UNCHANGED <<backend, page, addWords, session>>

\* loadChatHistory answered: the chat is shown; or failed (logged only).
ChatHistoryResolves ==
    /\ dialog.open /\ dialog.history
    /\ \E ok \in BOOLEAN :
         dialog' = [dialog EXCEPT !.history = FALSE,
                                  !.showChat = IF ok THEN TRUE ELSE @]
    /\ UNCHANGED <<backend, page, addWords, session>>

\* Textarea onChange, with the word count effect that follows it.
TypeResponse ==
    /\ FormShown(dialog)
    /\ dialog.task.type # "MCQ" /\ ~dialog.showChat
    /\ ~(isCompleted(dialog) \/ HasEvaluation(dialog))
    /\ \E s \in Edits(dialog.userResponse) :
         dialog' = WordCountEffect([dialog EXCEPT !.userResponse = s])
    /\ UNCHANGED <<backend, page, addWords, session>>

\* RadioGroup onValueChange: one of the options shown, 1-indexed.
SelectOption ==
    /\ FormShown(dialog)
    /\ dialog.task.type = "MCQ" /\ dialog.task.question # NullSeq
    /\ ~(isCompleted(dialog) \/ HasEvaluation(dialog))
    /\ \E o \in 1..Len(dialog.task.options) :
         dialog' = [dialog EXCEPT !.selectedOption = o]
    /\ UNCHANGED <<backend, page, addWords, session>>

\* The Submit button is clicked.
SubmitClick ==
    /\ SubmitEnabled(dialog)
    /\ dialog' = handleSubmit(dialog)
    /\ UNCHANGED <<backend, page, addWords, session>>

\* evaluateResponse answered: setEvaluation(response), setSubmitting(false).
EvaluateResolves ==
    /\ dialog.open /\ dialog.evaluating # << >>
    /\ \E r \in TaskResults, chat \in BOOLEAN :
         dialog' = [dialog EXCEPT !.evaluation = [result |-> r, chatId |-> chat],
                                  !.evaluating = Tail(@),
                                  !.submitting = FALSE]
    /\ UNCHANGED <<backend, page, addWords, session>>

\* evaluateResponse failed.
EvaluateFails ==
    /\ dialog.open /\ dialog.evaluating # << >>
    /\ dialog' = [dialog EXCEPT !.evaluating = Tail(@), !.submitting = FALSE]
    /\ UNCHANGED <<backend, page, addWords, session>>

\* Try Again
handleRetry ==
    /\ dialog.open
    /\ HasEvaluation(dialog) /\ ~dialog.showChat
    /\ dialog.evaluation.result = "FAIL"
    /\ dialog' = WordCountEffect(
            [dialog EXCEPT !.evaluation = NoEvaluation,
                           !.userResponse = << >>,
                           !.selectedOption = NoOption,
                           !.showChat = FALSE])
    /\ UNCHANGED <<backend, page, addWords, session>>

\* Continue Chat
handleContinueChat ==
    /\ dialog.open
    /\ HasEvaluation(dialog) /\ ~dialog.showChat
    /\ dialog.task.type # "MCQ" /\ dialog.evaluation.chatId
    /\ dialog' = [dialog EXCEPT !.showChat = TRUE]
    /\ UNCHANGED <<backend, page, addWords, session>>

\* Back to Task
BackToTask ==
    /\ dialog.open /\ dialog.showChat
    /\ dialog' = [dialog EXCEPT !.showChat = FALSE]
    /\ UNCHANGED <<backend, page, addWords, session>>

\* The Complete Task button is clicked.
CompleteClick ==
    /\ CompleteEnabled(dialog)
    /\ Len(dialog.completions) < MaxInFlight
    /\ dialog' = handleCompleteTask(dialog)
    /\ UNCHANGED <<backend, page, addWords, session>>

\* handleDialogClose: the dialog is unmounted; what it awaited goes on
\* without it.
handleDialogClose ==
    /\ dialog.open
    /\ dialog' = UnmountedDialog(Orphaned(dialog.completions))
    /\ UNCHANGED <<backend, page, addWords, session>>

\* handleCompleteTask after its await, when completeTask threw: an error
\* toast, and setCompleting(false) in the dialog that sent the request.
CompleteFailed(i) ==
    [dialog EXCEPT !.completions = RemoveAt(@, i),
                   !.completing = IF dialog.completions[i].own THEN FALSE ELSE @]

\* POST /api/tasks/{task_id}/complete reaches the backend and its answer
\* reaches handleCompleteTask: on success onTaskComplete() and onClose().
CompleteResolves ==
    \E i \in 1..Len(dialog.completions) :
        /\ CompleteTask(dialog.completions[i].taskId, dialog.completions[i].result)
        /\ IF lastCall'.response = "OK"
           THEN /\ page' = fetchTasks(page)
                /\ dialog' = UnmountedDialog(
                                Orphaned(RemoveAt(dialog.completions, i)))
           ELSE /\ page' = page
                /\ dialog' = CompleteFailed(i)
        /\ UNCHANGED <<addWords, session>>

\* The request or its answer is lost: completeTask throws without a
\* response, whether or not the backend handled the request.
CompleteLost ==
    \E i \in 1..Len(dialog.completions), reached \in BOOLEAN :
        /\ IF reached
           THEN CompleteTask(dialog.completions[i].taskId, dialog.completions[i].result)
           ELSE UNCHANGED backend
        /\ dialog' = CompleteFailed(i)
        /\ UNCHANGED <<page, addWords, session>>

InitDialog ==
    /\ words \in [1..1 -> {Word(p, "ACTIVE", 0) : p \in Priorities}]
    /\ date = 1
    /\ batches = << >>
    /\ lastCall = Call("init", NullSeq, NoResult, "OK")
    /\ gen = NoRuns
    /\ req = NoRuns
    /\ page = MountedPage
    /\ dialog = UnmountedDialog(<< >>)
    /\ addWords = NullSeq
    /\ NoSession

NextDialog ==
    \/ GenerateOnce
    \/ FetchTasksResolves
    \/ FetchTasksFails
    \/ \E k \in 1..MaxTasks : handleTaskClick(k)
    \/ FetchWordResolves
    \/ ChatHistoryResolves
    \/ TypeResponse
    \/ SelectOption
    \/ SubmitClick
    \/ EvaluateResolves
    \/ EvaluateFails
    \/ handleRetry
    \/ handleContinueChat
    \/ BackToTask
    \/ CompleteClick
    \/ handleDialogClose
    \/ CompleteResolves
    \/ CompleteLost

SpecDialog == InitDialog /\ [][NextDialog]_vars

-----------------------------------------------------------------------------
(* C16 to C19: the task dialog *)

\* The step sends a completeTask request, and the request it sends.
SendsCompletion == Len(dialog'.completions) = Len(dialog.completions) + 1

SentCompletion == dialog'.completions[Len(dialog'.completions)]

\* The step sends an evaluateResponse request, and the request it sends.
SendsEvaluation == Len(dialog'.evaluating) = Len(dialog.evaluating) + 1

SentEvaluation == dialog'.evaluating[Len(dialog'.evaluating)]

\* The completeTask requests awaited that the mounted dialog sent.
OwnCompletions ==
    {i \in 1..Len(dialog.completions) : dialog.completions[i].own}

\* C16: whenever the dialog holds an evaluation for an MCQ task, its result
\* is PASS exactly when the selected option (1-indexed) equals the task's
\* correctOption and FAIL otherwise; and a completeTask request sent for
\* the task carries that result.
C16_McqResultFromSelection ==
    /\ []((dialog.open /\ dialog.task.type = "MCQ" /\ HasEvaluation(dialog)) =>
            /\ dialog.selectedOption \in 1..4
            /\ dialog.evaluation.result =
                 (IF dialog.selectedOption = dialog.task.correctOption
                  THEN "PASS" ELSE "FAIL"))
    /\ [][(SendsCompletion /\ dialog.task.type = "MCQ") =>
            /\ SentCompletion.taskId = dialog.task.taskId
            /\ SentCompletion.result =
                 (IF dialog.selectedOption = dialog.task.correctOption
                  THEN "PASS" ELSE "FAIL")]_vars

\* An MCQ task answered with option 2 where option 1 is correct: the
\* evaluation is FAIL and the completion request awaited carries FAIL.
C16_Witness ==
    /\ dialog.open /\ dialog.task.type = "MCQ"
    /\ dialog.task.correctOption = 1
    /\ dialog.selectedOption = 2
    /\ dialog.evaluation.result = "FAIL"
    /\ \E i \in OwnCompletions : dialog.completions[i].result = "FAIL"

\* C17: an evaluateResponse request is sent only when the task's word is
\* loaded, for a free-text task, with a response that is not empty once
\* trimmed, and for a PARAGRAPH task only when the typed response holds at
\* least 50 whitespace-separated words.
C17_EvaluationGuarded ==
    [][SendsEvaluation =>
        /\ dialog.word
        /\ ~dialog.loading
        /\ dialog.task.type \in {"MEANING", "SENTENCE", "PARAGRAPH"}
        /\ SentEvaluation.userResponse # << >>
        /\ \E i \in 1..Len(dialog.userResponse) : dialog.userResponse[i] # Space
        /\ dialog.task.type = "PARAGRAPH" => WordsIn(dialog.userResponse) >= 50]_vars

\* A PARAGRAPH response of exactly 50 words is awaiting its evaluation.
C17_Witness ==
    /\ dialog.open /\ dialog.task.type = "PARAGRAPH"
    /\ dialog.submitting
    /\ dialog.evaluating # << >>
    /\ WordsIn(dialog.userResponse) = 50
    /\ dialog.evaluating[1].userResponse = Trim(dialog.userResponse)

\* C18 as stated: when the dialog's completion request is answered with
\* the rejection of an already completed task, the Complete Task button
\* is not available afterwards.
C18_RejectedDisablesComplete ==
    [][(/\ CompleteResolves
        /\ lastCall'.response = "InvalidStateError"
        /\ dialog.open /\ dialog.completing
        /\ dialog'.open /\ ~dialog'.completing)
          => ~CompleteEnabled(dialog')]_vars

\* C19: a completeTask request is sent only while the dialog holds an
\* evaluation, with that evaluation's result and the shown task's id, for a
\* task not shown as COMPLETED, and while no request of this dialog is
\* awaited; a dialog never awaits two of its own; and when a dialog opens
\* or Try Again is clicked, no evaluation is held and no evaluation answer
\* is awaited, so an evaluation held later was obtained since.
C19_CompletionFollowsEvaluation ==
    /\ [](Cardinality(OwnCompletions) <= 1)
    /\ [](dialog.open /\ isCompleted(dialog) => ~HasEvaluation(dialog))
    /\ [][SendsCompletion =>
            /\ dialog.open
            /\ HasEvaluation(dialog)
            /\ SentCompletion.result = dialog.evaluation.result
            /\ SentCompletion.taskId = dialog.task.taskId
            /\ dialog.task.status # "COMPLETED"
            /\ OwnCompletions = {}]_vars
    /\ [][((~dialog.open /\ dialog'.open)
              \/ (HasEvaluation(dialog) /\ ~HasEvaluation(dialog'))) =>
            /\ ~HasEvaluation(dialog')
            /\ dialog'.evaluating = << >>
            /\ ~dialog'.submitting]_vars

\* The dialog awaits its completion request, carrying the PASS of the
\* evaluation it holds, while a FAIL request of an earlier dialog for the
\* same task is still awaited.
C19_Witness ==
    /\ dialog.open /\ dialog.completing
    /\ dialog.evaluation.result = "PASS"
    /\ \E i \in OwnCompletions : dialog.completions[i].result = "PASS"
    /\ \E i \in 1..Len(dialog.completions) :
         /\ ~dialog.completions[i].own
         /\ dialog.completions[i].result = "FAIL"
         /\ dialog.completions[i].taskId = dialog.task.taskId

-----------------------------------------------------------------------------
(* The Add Words page *)

MaxStored == 4       \* word documents the store holds
MaxPending == 2      \* requests of one kind the browser has in flight

DailyWordLimit == 3

\* A word document as the list endpoint returns it.
WordResponse(p, d) ==
    [priority |-> p, state |-> "ACTIVE", masteryCount |-> 0,
     lastReviewedAt |-> NoDate, lastPromotedAt |-> NoDate,
     failureStats |-> ZeroStats, createdAt |-> d]

\* The words of the list created on local day d.
getTodayWordCount(ws, d) ==
    Cardinality({i \in 1..Len(ws) : ws[i].createdAt = d})

\* The page away from the screen; requests it sent may still be awaited.
UnmountedAddWords(creates) ==
    [mounted |-> FALSE, words |-> << >>, todayWordCount |-> 0,
     loading |-> FALSE, isDialogOpen |-> FALSE, isSubmitting |-> FALSE,
     creates |-> creates, fetches |-> << >>]

\* fetchWords is called: loading is set and the list request leaves; submit
\* marks the call onSubmit awaits.
fetchWords(a, submit) ==
    [a EXCEPT !.loading = TRUE,
              !.fetches = Append(@, [submit |-> submit, served |-> FALSE,
                                     data |-> << >>])]

\* The page as first rendered, its mount effect having called fetchWords.
MountedAddWords(creates) ==
    fetchWords([UnmountedAddWords(creates)
                   EXCEPT !.mounted = TRUE], FALSE)

\* Mutant: a fourth word of the day is let through.
canAddMoreWordsInclusive(a) == a.todayWordCount <= DailyWordLimit

canAddMoreWords(a) == a.todayWordCount < DailyWordLimit

\* The payload onSubmit sends.
CreateWordData == [priority |-> 1, own |-> TRUE]

\* onSubmit, run by the form once its fields are valid.
onSubmit(a) ==
    IF ~canAddMoreWords(a) THEN a
    ELSE [a EXCEPT !.isSubmitting = TRUE,
                   !.creates = Append(@, CreateWordData)]

\* The router renders the page.
MountAddWords ==
    /\ ~addWords.mounted
    /\ addWords' = MountedAddWords(addWords.creates)
    /\ UNCHANGED <<backend, page, dialog, session>>

\* The user leaves for another route: the state is gone, the answers of the
\* list requests awaited go nowhere, the other requests stay under way.
UnmountAddWords ==
    /\ addWords.mounted
    /\ addWords' = UnmountedAddWords(Orphaned(addWords.creates))
    /\ UNCHANGED <<backend, page, dialog, session>>

\* GET /api/words is answered by the store.
FetchWordsServed ==
    /\ addWords.mounted
    /\ \E i \in 1..Len(addWords.fetches) :
         /\ ~addWords.fetches[i].served
         /\ addWords' = [addWords EXCEPT !.fetches[i].served = TRUE,
                                         !.fetches[i].data = words]
    /\ UNCHANGED <<backend, page, dialog, session>>

\* The end of an awaited fetchWords call: loading is cleared, and
\* isSubmitting with it when onSubmit awaited the call.
FetchSettled(a, i) ==
    [a EXCEPT !.loading = FALSE,
              !.isSubmitting = IF a.fetches[i].submit THEN FALSE ELSE @,
              !.fetches = RemoveAt(@, i)]

\* The list arrives: setWords(data), and the memo is computed anew.
FetchWordsResolves ==
    /\ addWords.mounted
    /\ \E i \in 1..Len(addWords.fetches) :
         /\ addWords.fetches[i].served
         /\ addWords' =
              [FetchSettled(addWords, i) EXCEPT
                 !.words = addWords.fetches[i].data,
                 !.todayWordCount =
                     getTodayWordCount(addWords.fetches[i].data, date)]
    /\ UNCHANGED <<backend, page, dialog, session>>

\* The list request fails: the error is shown, the list is kept.
FetchWordsFails ==
    /\ addWords.mounted
    /\ \E i \in 1..Len(addWords.fetches) :
         addWords' = FetchSettled(addWords, i)
    /\ UNCHANGED <<backend, page, dialog, session>>

\* The Add Word button.
OpenAddDialog ==
    /\ addWords.mounted
    /\ canAddMoreWords(addWords)
    /\ ~addWords.isDialogOpen
    /\ addWords' = [addWords EXCEPT !.isDialogOpen = TRUE]
    /\ UNCHANGED <<backend, page, dialog, session>>

\* The dialog is dismissed (onOpenChange).
CloseAddDialog ==
    /\ addWords.mounted
    /\ addWords.isDialogOpen
    /\ addWords' = [addWords EXCEPT !.isDialogOpen = FALSE]
    /\ UNCHANGED <<backend, page, dialog, session>>

\* The form is submitted with valid fields through its submit button.
SubmitWord ==
    /\ addWords.mounted
    /\ addWords.isDialogOpen
    /\ ~(~canAddMoreWords(addWords) \/ addWords.isSubmitting)
    /\ Len(addWords.creates) < MaxPending
    /\ addWords' = onSubmit(addWords)
    /\ UNCHANGED <<backend, page, dialog, session>>

\* POST /api/words stores the word with the priority sent.
StoreWord(data) ==
    /\ Len(words) < MaxStored
    /\ words' = Append(words, WordResponse(data.priority, date))
    /\ lastCall' = Call("createWord", NullSeq, NoResult, "OK")
    /\ UNCHANGED <<date, batches, gen, req>>

\* onSubmit after createWord threw.
CreateWordFailed(i) ==
    IF addWords.creates[i].own
    THEN [addWords EXCEPT !.isSubmitting = FALSE, !.creates = RemoveAt(@, i)]
    ELSE [addWords EXCEPT !.creates = RemoveAt(@, i)]

\* The word is created and the answer arrives: the dialog closes and the
\* list is fetched again, isSubmitting staying set until that ends.
CreateWordResolves ==
    /\ \E i \in 1..Len(addWords.creates) :
         /\ StoreWord(addWords.creates[i])
         /\ addWords' =
              IF addWords.creates[i].own
              THEN fetchWords([addWords EXCEPT !.isDialogOpen = FALSE,
                                               !.creates = RemoveAt(@, i)],
                              TRUE)
              ELSE [addWords EXCEPT !.creates = RemoveAt(@, i)]
    /\ UNCHANGED <<page, dialog, session>>

\* The request is refused (a duplicate word) or fails on its way.
CreateWordFails ==
    /\ \E i \in 1..Len(addWords.creates) :
         addWords' = CreateWordFailed(i)
    /\ UNCHANGED <<backend, page, dialog, session>>

\* The word is created but the answer never arrives.
CreateWordLost ==
    /\ \E i \in 1..Len(addWords.creates) :
         /\ StoreWord(addWords.creates[i])
         /\ addWords' = CreateWordFailed(i)
    /\ UNCHANGED <<page, dialog, session>>

InitAddWords ==
    /\ words = << >>
    /\ date = 1
    /\ batches = << >>
    /\ lastCall = Call("init", NullSeq, NoResult, "OK")
    /\ gen = NoRuns
    /\ req = NoRuns
    /\ page = NullSeq
    /\ dialog = NullSeq
    /\ addWords = UnmountedAddWords(<< >>)
    /\ NoSession

NextAddWords ==
    \/ MountAddWords
    \/ UnmountAddWords
    \/ FetchWordsServed
    \/ FetchWordsResolves
    \/ FetchWordsFails
    \/ OpenAddDialog
    \/ CloseAddDialog
    \/ SubmitWord
    \/ CreateWordResolves
    \/ CreateWordFails
    \/ CreateWordLost
    \/ NextDay

SpecAddWords == InitAddWords /\ [][NextAddWords]_vars

-----------------------------------------------------------------------------
(* C20: the daily limit of the Add Words page *)

\* The step sends a createWord request, and the request it sends.
SendsCreate == Len(addWords'.creates) = Len(addWords.creates) + 1

SentCreate == addWords'.creates[Len(addWords'.creates)]

\* The createWord requests awaited that the mounted page sent.
OwnCreates == {i \in 1..Len(addWords.creates) : addWords.creates[i].own}

\* C20 as stated: a createWord request is sent only when fewer than 3 words
\* of the page's list were created on the current local day, while no
\* createWord request is awaited, and with priority 1.
C20_NeverTwoCreates ==
    [][SendsCreate =>
        /\ getTodayWordCount(addWords.words, date) < 3
        /\ addWords.creates = << >>
        /\ SentCreate.priority = 1]_vars

\* C20, amended: a createWord request is sent only by a mounted page, when
\* fewer than 3 words of its list were created on the current local day,
\* while no createWord request of that page is awaited, and with priority
\* 1; a mounted page never awaits two requests of its own.
C20_AddWordsGuard ==
    /\ [](Cardinality(OwnCreates) <= 1)
    /\ [](addWords.isSubmitting => addWords.mounted)
    /\ [][SendsCreate =>
            /\ addWords.mounted
            /\ getTodayWordCount(addWords.words, date) < 3
            /\ OwnCreates = {}
            /\ ~addWords.isSubmitting
            /\ SentCreate.priority = 1]_vars

\* After a refresh that failed, the page's list shows two words of today
\* while the store holds three, and a further createWord is awaited.
C20_Witness ==
    /\ addWords.mounted /\ addWords.isSubmitting
    /\ OwnCreates # {}
    /\ getTodayWordCount(addWords.words, date) = 2
    /\ getTodayWordCount(words, date) = 3

-----------------------------------------------------------------------------
(* The auth slice of the store and the route guards *)

MaxIssued == 2       \* access tokens the server issues
MaxCalls == 2        \* requests of the api instance in flight

NoToken == 0         \* accessToken: null (or any falsy value)
Null == "null"       \* email, firstName, lastName: null
Empty == ""          \* a string field that is empty, hence falsy

AccessTokens == 1..MaxIssued

initialState ==
    [accessToken |-> NoToken, isInitialized |-> FALSE, email |-> Null,
     firstName |-> Null, lastName |-> Null, isAdmin |-> FALSE]

\* payload.f || null, for a payload that may lack f.
OrNull(payload, f) ==
    IF f \in DOMAIN payload /\ payload[f] \notin {Empty, Null}
    THEN payload[f] ELSE Null

\* payload.f || false
OrFalse(payload, f) ==
    IF f \in DOMAIN payload THEN payload[f] ELSE FALSE

\* The payload is a string (field string) or an object that may hold
\* jwt_token or access_token.
setAccessToken(state, payload) ==
    [state EXCEPT
       !.accessToken =
          IF "string" \in DOMAIN payload THEN payload.string
          ELSE IF "jwt_token" \in DOMAIN payload /\ payload.jwt_token # NoToken
               THEN payload.jwt_token
          ELSE IF "access_token" \in DOMAIN payload
                   /\ payload.access_token # NoToken
               THEN payload.access_token
          ELSE @,
       !.isInitialized = TRUE]

\* Mutant: clearing the token leaves isInitialized as it was.
clearAccessTokenKeepsFlag(state) ==
    [state EXCEPT !.accessToken = NoToken, !.email = Null,
                  !.firstName = Null, !.lastName = Null, !.isAdmin = FALSE]

clearAccessToken(state) ==
    [state EXCEPT !.accessToken = NoToken, !.email = Null,
                  !.firstName = Null, !.lastName = Null,
                  !.isAdmin = FALSE, !.isInitialized = TRUE]

setUserData(state, payload) ==
    [state EXCEPT !.email = OrNull(payload, "email"),
                  !.firstName = OrNull(payload, "firstName"),
                  !.lastName = OrNull(payload, "lastName"),
                  !.isAdmin = OrFalse(payload, "isAdmin")]

updateUserEmail(state, payload) ==
    [state EXCEPT !.email = OrNull(payload, "email")]

setInitialized(state) == [state EXCEPT !.isInitialized = TRUE]

\* What a guard returns: the spinner, its children, or a redirect target.
Loading == "loading"
Children == "children"

\* Mutant: the token is checked without waiting for the initialization.
ProtectedRouteNoWait(state) ==
    IF state.accessToken # NoToken THEN Children ELSE "/login"

ProtectedRoute(state) ==
    IF ~state.isInitialized THEN Loading
    ELSE IF state.accessToken # NoToken THEN Children
    ELSE "/login"

AdminRoute(state) ==
    IF ~state.isInitialized THEN Loading
    ELSE IF state.accessToken = NoToken THEN "/login"
    ELSE IF ~state.isAdmin THEN "/dashboard"
    ELSE Children

\* AuthProvider renders the router only once the store is initialized.
AuthProvider(state) == IF ~state.isInitialized THEN Loading ELSE Children

Paths == {"/login", "/signup", "/dashboard", "/my-profile", "/admin"}

\* Router: the element of the route matching the path.
Router(state, path) ==
    CASE path \in {"/dashboard", "/my-profile"} -> ProtectedRoute(state)
      [] path = "/admin" -> AdminRoute(state)
      [] OTHER -> Children

\* What the application shows at the path.
Shown(state, path) ==
    IF AuthProvider(state) = Loading THEN Loading ELSE Router(state, path)

\* The page at the path is on screen.
PageShown(path) ==
    /\ location.path = path
    /\ Shown(auth, path) = Children

-----------------------------------------------------------------------------
(* The api instance, its interceptors, and the pages that dispatch *)

\* URLs, as their path segments.
LoginUrl == <<"api", "auth", "login">>
RegisterUrl == <<"api", "auth", "register">>
RefreshUrl == <<"api", "auth", "refresh">>
ProfileUrl == <<"api", "auth", "profile">>
VerifyNewEmailUrl == <<"api", "auth", "verify-new-email-otp">>
TasksUrl == <<"api", "tasks", "today">>

\* String.prototype.includes
Includes(url, part) ==
    \E i \in 0..(Len(url) - Len(part)) :
        SubSeq(url, i + 1, i + Len(part)) = part

\* Mutant: only the login URL is exempt from the refresh.
IsAuthUrlLoginOnly(url) == Includes(url, LoginUrl)

\* The URLs whose errors the response interceptor passes on untouched.
IsAuthUrl(url) ==
    \/ Includes(url, LoginUrl)
    \/ Includes(url, RefreshUrl)
    \/ Includes(url, RegisterUrl)

Ok == 200
Unauthorized == 401
ServerError == 500
Statuses == {Ok, Unauthorized, ServerError}

\* The user as the server's responses describe them.
ServerUsers ==
    {[email |-> "u", firstName |-> "F", lastName |-> "L", isAdmin |-> TRUE],
     [email |-> "u", firstName |-> Empty, lastName |-> Empty,
      isAdmin |-> FALSE]}

NoCall ==
    [url |-> << >>, caller |-> "none", sentWith |-> NoToken,
     retry |-> FALSE, stage |-> "none", refreshes |-> 0, sends |-> 0]

\* The request interceptor: the Authorization header of a request leaving
\* with the header it already has.
RequestInterceptor(state, header) ==
    IF state.accessToken # NoToken THEN state.accessToken ELSE header

\* A request of the api instance as it leaves.
ApiCall(state, url, caller) ==
    [NoCall EXCEPT !.url = url, !.caller = caller,
                   !.sentWith = RequestInterceptor(state, NoToken),
                   !.stage = "sent", !.sends = 1]

\* boot: where the mount effect stands; issued: the tokens the server has
\* issued; requests: the requests under way; outcome: how the last request
\* to end was handed to its caller.
NoCalls == [boot |-> "mounting", issued |-> 0, requests |-> << >>,
            outcome |-> "none"]

\* A request is over: its promise is resolved or rejected to the caller.
Settle(c, i, outcome) ==
    [c EXCEPT !.requests = RemoveAt(@, i), !.outcome = outcome]

\* Mutant: the login passes the server's isAdmin on.
LoginUserDataWithAdmin(response) ==
    [email |-> response.email, firstName |-> response.firstName,
     lastName |-> response.lastName, isAdmin |-> response.isAdmin]

\* The payload Login.onSubmit dispatches from the login response.
LoginUserData(response) ==
    [email |-> response.email,
     firstName |-> IF response.firstName # Empty THEN response.firstName
                   ELSE Null,
     lastName |-> IF response.lastName # Empty THEN response.lastName
                  ELSE Null]

\* The payload the two refresh paths dispatch.
RefreshUserData(data) == [email |-> data.email]

\* Mutant: the assignment to window.location.href does nothing.
AssignLocationIgnored(loc, href) == loc

\* window.location.href = href: the browser is sent to load the document.
AssignLocation(loc, href) == [path |-> href, reloading |-> TRUE]

\* AuthProvider's mount effect.
initAuth ==
    /\ calls.boot = "mounting"
    /\ ~location.reloading
    /\ IF auth.isInitialized
       THEN /\ calls' = [calls EXCEPT !.boot = "done"]
            /\ auth' = auth
       ELSE IF auth.accessToken # NoToken
       THEN /\ calls' = [calls EXCEPT !.boot = "done"]
            /\ auth' = setInitialized(auth)
       ELSE /\ calls' = [calls EXCEPT !.boot = "refreshing"]
            /\ auth' = auth
    /\ UNCHANGED <<backend, page, dialog, addWords, location, forgot>>

\* The refresh of the mount effect is answered with a token.
InitRefreshResolves ==
    /\ calls.boot = "refreshing"
    /\ calls.issued < MaxIssued
    /\ \E user \in ServerUsers :
         auth' = setUserData(
                   setAccessToken(auth, [string |-> calls.issued + 1]),
                   RefreshUserData(user))
    /\ calls' = [calls EXCEPT !.boot = "done", !.issued = @ + 1]
    /\ UNCHANGED <<backend, page, dialog, addWords, location, forgot>>

\* The refresh is answered without a token, or fails.
InitRefreshFails ==
    /\ calls.boot = "refreshing"
    /\ auth' = clearAccessToken(auth)
    /\ calls' = [calls EXCEPT !.boot = "done"]
    /\ UNCHANGED <<backend, page, dialog, addWords, location, forgot>>

\* The user follows a link of the application.
Navigate(path) ==
    /\ AuthProvider(auth) = Children
    /\ ~location.reloading
    /\ location.path # path
    /\ location' = [location EXCEPT !.path = path]
    /\ UNCHANGED <<backend, page, dialog, addWords, auth, calls, forgot>>

\* A guard returned <Navigate to=... replace />.
GuardRedirect ==
    /\ Shown(auth, location.path) \in Paths
    /\ location' = [location EXCEPT !.path = Shown(auth, location.path)]
    /\ UNCHANGED <<backend, page, dialog, addWords, auth, calls, forgot>>

\* The pages' requests through the api instance: where each is made from.
CallSites ==
    {[path |-> "/login", url |-> LoginUrl, caller |-> "login"],
     [path |-> "/signup", url |-> RegisterUrl, caller |-> "signup"],
     [path |-> "/my-profile", url |-> ProfileUrl, caller |-> "profile"],
     [path |-> "/my-profile", url |-> VerifyNewEmailUrl, caller |-> "email"],
     [path |-> "/dashboard", url |-> TasksUrl, caller |-> "data"],
     [path |-> "/dashboard", url |-> RefreshUrl, caller |-> "data"]}

ApiRequest ==
    /\ Len(calls.requests) < MaxCalls
    /\ \E site \in CallSites :
         /\ PageShown(site.path)
         /\ calls' = [calls EXCEPT
                        !.requests = Append(@, ApiCall(auth, site.url,
                                                       site.caller))]
    /\ UNCHANGED <<backend, page, dialog, addWords, auth, location, forgot>>

\* What the caller does with the response of its request.
Continuation(state, caller, user, token) ==
    CASE caller = "login" ->
           setUserData(setAccessToken(state, [string |-> token]),
                       LoginUserData(user))
      [] caller = "profile" ->
           setUserData(state, [email |-> user.email,
                               firstName |-> user.firstName,
                               lastName |-> user.lastName])
      [] caller = "email" -> updateUserEmail(state, [email |-> user.email])
      [] OTHER -> state

\* A request is answered with success.
ApiResolves ==
    /\ \E i \in 1..Len(calls.requests), user \in ServerUsers :
         LET r == calls.requests[i]
             issues == IF r.caller = "login" THEN 1 ELSE 0
         IN /\ r.stage \in {"sent", "retried"}
            /\ calls.issued + issues <= MaxIssued
            /\ auth' = Continuation(auth, r.caller, user, calls.issued + 1)
            /\ calls' = [Settle(calls, i, "resolved") EXCEPT
                           !.issued = @ + issues]
            /\ location' = IF r.caller = "login" /\ ~location.reloading
                           THEN [location EXCEPT !.path = "/dashboard"]
                           ELSE location
    /\ UNCHANGED <<backend, page, dialog, addWords, forgot>>

\* The response interceptor's error handler up to its await: the request
\* is rejected, or marked and held while the refresh is requested.
OnRejected(c, i, status) ==
    LET r == c.requests[i]
    IN IF IsAuthUrl(r.url) THEN Settle(c, i, "rejected")
       ELSE IF status = Unauthorized /\ ~r.retry
       THEN [c EXCEPT !.requests[i].retry = TRUE,
                      !.requests[i].stage = "refreshing",
                      !.requests[i].refreshes = @ + 1]
       ELSE Settle(c, i, "rejected")

\* A request is answered with an error status.
ApiFails ==
    /\ \E i \in 1..Len(calls.requests), status \in Statuses \ {Ok} :
         /\ calls.requests[i].stage \in {"sent", "retried"}
         /\ calls' = OnRejected(calls, i, status)
    /\ UNCHANGED <<backend, page, dialog, addWords, auth, location, forgot>>

\* The interceptor's refresh returns a token: it is stored and the request
\* is sent again through the api instance with it.
RefreshResolves ==
    /\ calls.issued < MaxIssued
    /\ \E i \in 1..Len(calls.requests), user \in ServerUsers :
         LET token == calls.issued + 1
             stored == setUserData(setAccessToken(auth, [string |-> token]),
                                   RefreshUserData(user))
         IN /\ calls.requests[i].stage = "refreshing"
            /\ auth' = stored
            /\ calls' = [calls EXCEPT
                           !.issued = token,
                           !.requests[i].stage = "retried",
                           !.requests[i].sends = @ + 1,
                           !.requests[i].sentWith =
                               RequestInterceptor(stored, token)]
    /\ UNCHANGED <<backend, page, dialog, addWords, location, forgot>>

\* The interceptor's refresh fails or returns no access_token: the store
\* is cleared, the browser is sent to /login and the error is rejected.
RefreshFails ==
    /\ \E i \in 1..Len(calls.requests) :
         /\ calls.requests[i].stage = "refreshing"
         /\ calls' = Settle(calls, i, "rejected")
    /\ auth' = clearAccessToken(auth)
    /\ location' = AssignLocation(location, "/login")
    /\ UNCHANGED <<backend, page, dialog, addWords, forgot>>

\* handleLogout of the dashboard layout.
handleLogout ==
    /\ location.path \in {"/dashboard", "/my-profile"}
    /\ PageShown(location.path)
    /\ ~location.reloading
    /\ auth' = clearAccessToken(auth)
    /\ location' = [location EXCEPT !.path = "/login"]
    /\ UNCHANGED <<backend, page, dialog, addWords, calls, forgot>>

\* The browser loads the document it was sent to: the script starts anew,
\* its store in the initial state and its requests gone.
PageLoad ==
    /\ location.reloading
    /\ location' = [location EXCEPT !.reloading = FALSE]
    /\ auth' = initialState
    /\ calls' = [NoCalls EXCEPT !.issued = calls.issued]
    /\ UNCHANGED <<backend, page, dialog, addWords, forgot>>

InitSession ==
    /\ words = << >>
    /\ date = 1
    /\ batches = << >>
    /\ lastCall = Call("init", NullSeq, NoResult, "OK")
    /\ gen = NoRuns
    /\ req = NoRuns
    /\ page = NullSeq
    /\ dialog = NullSeq
    /\ addWords = NullSeq
    /\ forgot = NullSeq
    /\ auth = initialState
    /\ calls = NoCalls
    /\ location \in [path : Paths, reloading : {FALSE}]

NextSession ==
    \/ initAuth
    \/ InitRefreshResolves
    \/ InitRefreshFails
    \/ \E path \in Paths : Navigate(path)
    \/ GuardRedirect
    \/ ApiRequest
    \/ ApiResolves
    \/ ApiFails
    \/ RefreshResolves
    \/ RefreshFails
    \/ handleLogout
    \/ PageLoad

SpecSession == InitSession /\ [][NextSession]_vars

-----------------------------------------------------------------------------
(* The store under any dispatch *)

\* Values a token field of a payload can hold.
TokenValues == {NoToken} \cup AccessTokens

\* setAccessToken with a string, or with an object holding jwt_token,
\* access_token, both or neither.
DispatchSetAccessToken ==
    /\ \/ \E t \in TokenValues : auth' = setAccessToken(auth, [string |-> t])
       \/ \E t \in TokenValues : auth' = setAccessToken(auth, [jwt_token |-> t])
       \/ \E t \in TokenValues :
            auth' = setAccessToken(auth, [access_token |-> t])
       \/ \E t \in TokenValues :
            auth' = setAccessToken(auth, [jwt_token |-> NoToken,
                                          access_token |-> t])
       \/ auth' = setAccessToken(auth, << >>)
    /\ UNCHANGED <<backend, page, dialog, addWords, calls, location, forgot>>

DispatchClearAccessToken ==
    /\ auth' = clearAccessToken(auth)
    /\ UNCHANGED <<backend, page, dialog, addWords, calls, location, forgot>>

\* setUserData with a payload holding every field, the fields the login and
\* the profile page pass, the email alone, or nothing.
DispatchSetUserData ==
    /\ \/ \E user \in ServerUsers : auth' = setUserData(auth, user)
       \/ \E user \in ServerUsers : auth' = setUserData(auth, LoginUserData(user))
       \/ \E user \in ServerUsers :
            auth' = setUserData(auth, RefreshUserData(user))
       \/ auth' = setUserData(auth, [email |-> Empty])
       \/ auth' = setUserData(auth, << >>)
    /\ UNCHANGED <<backend, page, dialog, addWords, calls, location, forgot>>

DispatchUpdateUserEmail ==
    /\ \/ \E user \in ServerUsers :
            auth' = updateUserEmail(auth, [email |-> user.email])
       \/ auth' = updateUserEmail(auth, << >>)
    /\ UNCHANGED <<backend, page, dialog, addWords, calls, location, forgot>>

DispatchSetInitialized ==
    /\ auth' = setInitialized(auth)
    /\ UNCHANGED <<backend, page, dialog, addWords, calls, location, forgot>>

NextStore ==
    \/ initAuth
    \/ InitRefreshResolves
    \/ InitRefreshFails
    \/ \E path \in Paths : Navigate(path)
    \/ GuardRedirect
    \/ DispatchSetAccessToken
    \/ DispatchClearAccessToken
    \/ DispatchSetUserData
    \/ DispatchUpdateUserEmail
    \/ DispatchSetInitialized

SpecStore == InitSession /\ [][NextStore]_vars

\* The mount effect runs, and the refresh request it awaits is answered
\* or fails.
SpecStoreLive ==
    /\ SpecStore
    /\ WF_vars(initAuth)
    /\ WF_vars(InitRefreshResolves \/ InitRefreshFails)

\* C21: ProtectedRoute returns its children only when isInitialized is true
\* and accessToken is not null, AdminRoute only when isAdmin is true as
\* well; while isInitialized is false both return the spinner, and the
\* location changes, by a redirect or otherwise, only when it is true.
C21_GuardsWaitForInit ==
    /\ [](ProtectedRoute(auth) = Children =>
            auth.isInitialized /\ auth.accessToken # NoToken)
    /\ [](AdminRoute(auth) = Children =>
            auth.isInitialized /\ auth.accessToken # NoToken /\ auth.isAdmin)
    /\ [](~auth.isInitialized =>
            /\ ProtectedRoute(auth) = Loading
            /\ AdminRoute(auth) = Loading
            /\ \A path \in Paths : Shown(auth, path) = Loading)
    /\ [][location'.path # location.path => auth.isInitialized]_vars

\* The Admin page is on screen, and nothing is redirected.
C21_Witness ==
    /\ PageShown("/admin")
    /\ ProtectedRoute(auth) = Children
    /\ auth.isAdmin

\* C22: isInitialized becomes true and stays true: after the mount
\* effect's refresh has returned a token, returned none or failed, and
\* under every dispatch of setAccessToken, clearAccessToken, setUserData,
\* setInitialized and updateUserEmail.
C22_InitializationCompletes ==
    /\ <>[]auth.isInitialized
    /\ [][auth.isInitialized => auth'.isInitialized]_vars
    /\ [](calls.boot = "done" => auth.isInitialized)

\* The refresh failed: the store is initialized without a token.
C22_Witness ==
    /\ calls.boot = "done"
    /\ calls.issued = 0
    /\ auth.isInitialized
    /\ auth.accessToken = NoToken

-----------------------------------------------------------------------------
(* C23, C24, C26: the session *)

\* The step is not the loading of a document.
SamePage == ~(location.reloading /\ ~location'.reloading)

\* The step leaves the requests under way in their places.
SameRequests == Len(calls'.requests) = Len(calls.requests)

\* The step ends request i by rejecting it to its caller.
Rejects(i) ==
    /\ SamePage
    /\ calls'.requests = RemoveAt(calls.requests, i)
    /\ calls'.outcome = "rejected"

\* C23: a request is refreshed for at most once and sent at most twice. The
\* refresh is requested only for a request not yet retried whose URL is
\* none of login, refresh and register; the retry carries the token the
\* refresh returned, which is the one stored; and a retried request is
\* never refreshed for again: it is answered or rejected.
C23_RefreshAtMostOnce ==
    /\ [](\A i \in 1..Len(calls.requests) :
            LET r == calls.requests[i]
            IN /\ r.refreshes <= 1
               /\ r.sends <= 2
               /\ r.url \in {LoginUrl, RefreshUrl, RegisterUrl} =>
                    r.stage = "sent" /\ r.refreshes = 0)
    /\ [][SameRequests =>
            \A i \in 1..Len(calls.requests) :
              LET r == calls.requests[i]
                  s == calls'.requests[i]
              IN /\ (s.stage = "refreshing" /\ r.stage # "refreshing") =>
                      /\ r.stage = "sent" /\ ~r.retry /\ r.refreshes = 0
                      /\ s.retry /\ s.refreshes = 1 /\ s.sends = 1
                      /\ r.url \notin {LoginUrl, RefreshUrl, RegisterUrl}
                 /\ (s.stage = "retried" /\ r.stage # "retried") =>
                      /\ r.stage = "refreshing"
                      /\ s.sends = 2 /\ s.refreshes = 1
                      /\ s.sentWith = auth'.accessToken
                      /\ s.sentWith > calls.issued
                 /\ r.stage = "retried" => s = r]_vars

\* A request sent without a token was refreshed for and is under way again
\* with the token issued, while the request before it was rejected.
C23_Witness ==
    /\ calls.outcome = "rejected"
    /\ \E i \in 1..Len(calls.requests) :
         /\ calls.requests[i].stage = "retried"
         /\ calls.requests[i].sentWith = auth.accessToken
         /\ calls.requests[i].url = TasksUrl

\* C24: when the interceptor's refresh fails or returns no token, the
\* token and the user data are cleared, the browser is sent to /login and
\* the request is rejected to its caller; when a retried request fails,
\* it is rejected and neither the store nor the location changes.
C24_RefreshFailureClears ==
    [][\A i \in 1..Len(calls.requests) :
         /\ (calls.requests[i].stage = "refreshing" /\ Rejects(i)) =>
              /\ auth'.accessToken = NoToken
              /\ auth'.email = Null
              /\ auth'.firstName = Null /\ auth'.lastName = Null
              /\ ~auth'.isAdmin
              /\ location'.path = "/login" /\ location'.reloading
         /\ (calls.requests[i].stage = "retried" /\ Rejects(i)) =>
              /\ auth' = auth
              /\ location' = location]_vars

\* A session that held a token was cleared by a failed refresh and is
\* being sent to /login from another page than it.
C24_Witness ==
    /\ calls.issued > 0
    /\ calls.outcome = "rejected"
    /\ auth.accessToken = NoToken
    /\ location.reloading
    /\ location.path = "/login"

-----------------------------------------------------------------------------
(* The forgot-password page *)

MaxOrphans == 1      \* requests awaited whose page is gone

Emails == {"a", "b", "c"}
NoEmail == ""

NoRequest == [kind |-> "none", email |-> NoEmail]

\* The page as mounted: step 1, no email. request is the request it awaits;
\* verified is the email of the last verifyPasswordResetOtp it saw succeed;
\* orphans are the requests still under way of pages since unmounted.
MountedForgot(orphans) ==
    [mounted |-> TRUE, step |-> 1, email |-> NoEmail, error |-> Null,
     success |-> Null, isLoading |-> FALSE, request |-> NoRequest,
     verified |-> NoEmail, redirecting |-> FALSE, orphans |-> orphans]

UnmountedForgot(orphans) == [MountedForgot(orphans) EXCEPT !.mounted = FALSE]

\* Mutant: the Change Email button is shown at every step.
ChangeEmailShownAlways(f) == TRUE

\* The Change Email button belongs to the form of step 2.
ChangeEmailShown(f) == f.step = 2

\* The start of each submit handler: isLoading is set, the messages are
\* cleared and the request leaves.
Submitting(f, kind, email) ==
    [f EXCEPT !.isLoading = TRUE, !.error = Null, !.success = Null,
              !.request = [kind |-> kind, email |-> email]]

\* The end of each handler: the message of its outcome, and the finally
\* block.
Finished(f, error, success) ==
    [f EXCEPT !.isLoading = FALSE, !.request = NoRequest,
              !.error = error, !.success = success]

MountForgot ==
    /\ ~forgot.mounted
    /\ forgot' = MountedForgot(forgot.orphans)
    /\ UNCHANGED <<backend, page, dialog, addWords, auth, calls, location>>

\* The user leaves the page, or the timer set after the reset redirects
\* to /login: the answer of a request still awaited goes nowhere.
UnmountForgot ==
    /\ forgot.mounted
    /\ forgot.request.kind # "none" => Len(forgot.orphans) < MaxOrphans
    /\ forgot' = UnmountedForgot(IF forgot.request.kind = "none"
                                 THEN forgot.orphans
                                 ELSE Append(forgot.orphans, forgot.request))
    /\ UNCHANGED <<backend, page, dialog, addWords, auth, calls, location>>

\* Step 1: the email form is submitted.
handleEmailSubmit ==
    /\ forgot.mounted /\ forgot.step = 1 /\ ~forgot.isLoading
    /\ \E e \in Emails : forgot' = Submitting(forgot, "forgotPassword", e)
    /\ UNCHANGED <<backend, page, dialog, addWords, auth, calls, location>>

ForgotPasswordResolves ==
    /\ forgot.mounted /\ forgot.request.kind = "forgotPassword"
    /\ forgot' = [Finished(forgot, Null, "sent") EXCEPT
                    !.email = forgot.request.email,
                                          !.step = 2]
    /\ UNCHANGED <<backend, page, dialog, addWords, auth, calls, location>>

\* Step 2: the OTP form is submitted, for the email of the state.
handleOtpSubmit ==
    /\ forgot.mounted /\ forgot.step = 2 /\ ~forgot.isLoading
    /\ forgot' = Submitting(forgot, "verifyPasswordResetOtp", forgot.email)
    /\ UNCHANGED <<backend, page, dialog, addWords, auth, calls, location>>

VerifyOtpResolves ==
    /\ forgot.mounted /\ forgot.request.kind = "verifyPasswordResetOtp"
    /\ forgot' = [Finished(forgot, Null, "verified") EXCEPT
                    !.verified = forgot.request.email,
                                          !.step = 3]
    /\ UNCHANGED <<backend, page, dialog, addWords, auth, calls, location>>

\* The Change Email button: setStep(1).
ChangeEmail ==
    /\ forgot.mounted /\ ChangeEmailShown(forgot)
    /\ forgot' = [forgot EXCEPT !.step = 1]
    /\ UNCHANGED <<backend, page, dialog, addWords, auth, calls, location>>

\* Step 3: the password form is submitted, for the email of the state.
handlePasswordSubmit ==
    /\ forgot.mounted /\ forgot.step = 3 /\ ~forgot.isLoading
    /\ forgot' = Submitting(forgot, "resetPassword", forgot.email)
    /\ UNCHANGED <<backend, page, dialog, addWords, auth, calls, location>>

\* The password is reset: the redirect to /login is set for later.
ResetPasswordResolves ==
    /\ forgot.mounted /\ forgot.request.kind = "resetPassword"
    /\ forgot' = [Finished(forgot, Null, "reset") EXCEPT !.redirecting = TRUE]
    /\ UNCHANGED <<backend, page, dialog, addWords, auth, calls, location>>

\* The request awaited fails: the error is shown.
ForgotRequestFails ==
    /\ forgot.mounted /\ forgot.request.kind # "none"
    /\ forgot' = Finished(forgot, forgot.request.kind, Null)
    /\ UNCHANGED <<backend, page, dialog, addWords, auth, calls, location>>

\* A request of a page since unmounted is answered or fails: no state of
\* the page mounted now is set.
OrphanSettles ==
    /\ \E i \in 1..Len(forgot.orphans) :
         forgot' = [forgot EXCEPT !.orphans = RemoveAt(@, i)]
    /\ UNCHANGED <<backend, page, dialog, addWords, auth, calls, location>>

InitForgot ==
    /\ words = << >>
    /\ date = 1
    /\ batches = << >>
    /\ lastCall = Call("init", NullSeq, NoResult, "OK")
    /\ gen = NoRuns
    /\ req = NoRuns
    /\ page = NullSeq
    /\ dialog = NullSeq
    /\ addWords = NullSeq
    /\ auth = NullSeq
    /\ calls = NullSeq
    /\ location = NullSeq
    /\ forgot = MountedForgot(<< >>)

NextForgot ==
    \/ MountForgot
    \/ UnmountForgot
    \/ handleEmailSubmit
    \/ ForgotPasswordResolves
    \/ handleOtpSubmit
    \/ VerifyOtpResolves
    \/ ChangeEmail
    \/ handlePasswordSubmit
    \/ ResetPasswordResolves
    \/ ForgotRequestFails
    \/ OrphanSettles

SpecForgot == InitForgot /\ [][NextForgot]_vars

\* C25: on a mounted page, step 2 is entered only from step 1 when a
\* forgotPassword request succeeds, and with its email; step 3 only when a
\* verifyPasswordResetOtp request for the email of the state succeeds; the
\* step decreases only from 2 to 1; and resetPassword is requested only at
\* step 3, with the email last verified.
C25_ThreeStepMachine ==
    /\ [](forgot.step = 3 => forgot.verified = forgot.email)
    /\ [](forgot.request.kind = "resetPassword" =>
            /\ forgot.step = 3
            /\ forgot.request.email = forgot.verified
            /\ forgot.verified \in Emails)
    /\ [][(forgot.mounted /\ forgot'.mounted) =>
            /\ (forgot'.step = 2 /\ forgot.step # 2) =>
                 /\ forgot.step = 1
                 /\ forgot.request.kind = "forgotPassword"
                 /\ forgot'.request = NoRequest
                 /\ forgot'.email = forgot.request.email
            /\ (forgot'.step = 3 /\ forgot.step # 3) =>
                 /\ forgot.request.kind = "verifyPasswordResetOtp"
                 /\ forgot'.request = NoRequest
                 /\ forgot.request.email = forgot.email
                 /\ forgot'.verified = forgot.email
            /\ forgot'.step < forgot.step =>
                 forgot.step = 2 /\ forgot'.step = 1
            /\ forgot'.email # forgot.email => forgot'.step = 2]_vars

\* resetPassword is awaited for b, a redirect from an earlier reset being
\* already set and a verification for a, sent by a page since left, being
\* still under way.
C25_Witness ==
    /\ forgot.step = 3
    /\ forgot.orphans = <<[kind |-> "verifyPasswordResetOtp", email |-> "a"]>>
    /\ forgot.request = [kind |-> "resetPassword", email |-> "b"]
    /\ forgot.verified = "b"
    /\ forgot.redirecting

=============================================================================
